---------------------------- MODULE Spec2Model ----------------------------
(***************************************************************************)
(* A model of big-dash's dynamic SQL layer: the query compiler             *)
(* (buildSelectQuery, buildInsertQuery, buildUpdateQuery,                  *)
(* buildDeleteQuery) and the executor / introspector calls that open a     *)
(* pool, run the compiled query and end the pool.                          *)
(*                                                                         *)
(* A JavaScript string is a sequence of text chunks.  A table or column    *)
(* name is a sequence of one-character chunks; the fixed text of a         *)
(* template literal is one chunk; the SQL text is the sequence of all      *)
(* chunks, so that concatenating its elements gives the SQL string.        *)
(***************************************************************************)
EXTENDS Integers, Sequences, FiniteSets, TLC

VARIABLES
    op,       \* the descriptor handed to the compiler in the last call
    out,      \* what that call produced: {sql, params} or a thrown error
    calls,    \* executor / introspector calls in flight, by call id
    pools,    \* the pg pools created so far, by the id of the creating call
    seen,     \* every (descriptor, result) pair the compiler has produced
    vault,    \* one encrypted credential: what was encrypted, and what a
              \* later decrypt / getConfig / testConnection made of it
    roles,    \* the roles handed to hasMinimumRole / assertRole, and the answers
    org,      \* the organization: whether it exists, and each user's role in it
    reqs,     \* member-management and data-source requests, by request id
    db,       \* the stored records of the routers: data sources, resources,
              \* apps, pages and audit log entries
    resp,     \* the last request a router handler served, and its response
    http      \* a request that reached the proxy, and the proxy's answer

varsCompile == <<op, out>>
varsExec == <<calls, pools>>
varsRepeat == <<seen>>
varsVault == <<vault>>
varsRoles == <<roles>>
varsOrg == <<org, reqs>>
varsStore == <<db, resp>>
varsProxy == <<http>>
varsRest == <<varsRepeat, varsVault, varsRoles, varsOrg, varsStore, varsProxy>>
vars == <<op, out, calls, pools, seen, vault, roles, org, reqs, db, resp, http>>

---------------------------------------------------------------------------
(* Characters, names and values                                            *)

QUOTE == "\""
BSL == "\\"
STAR == "*"

\* undefined / absent option and a present one
Unset == <<>>
Some(x) == <<x>>

\* JavaScript null as a filter or assignment value
Null == "null"

MAX_ROWS == 1000

\* Table and column names the caller may send: plain, the wildcard, and one
\* holding a double quote followed by a backslash.
Names == { <<"a">>, <<STAR>>, <<"a", QUOTE, BSL>> }

\* Values of filters and assignments
Values == { Null, "v1", "v2" }

\* Bounds on the descriptor's collections
MaxFilters == 2
MaxData == 1

RECURSIVE SeqsUpTo(_, _)
SeqsUpTo(S, n) ==
    IF n = 0 THEN { <<>> }
    ELSE LET shorter == SeqsUpTo(S, n - 1)
         IN  shorter \cup { Append(s, x) : s \in { t \in shorter : Len(t) = n - 1 }, x \in S }

\* Record<string, unknown> in Object.entries order: pairs with distinct keys
Entry == [key : Names, value : Values]
DistinctKeys(m) == \A i, j \in 1..Len(m) : i # j => m[i].key # m[j].key
MapsUpTo(n) == { m \in SeqsUpTo(Entry, n) : DistinctKeys(m) }

ColumnLists ==
    { <<>>, <<<<STAR>>>>, <<<<"a">>, <<"a", QUOTE, BSL>>>>,
      <<<<STAR>>, <<"a">>>>, <<<<"a">>, <<STAR>>>> }

OrderLists ==
    { <<>>,
      <<[column |-> <<"a">>, direction |-> "ASC"]>>,
      <<[column |-> <<"a", QUOTE, BSL>>, direction |-> "DESC"],
        [column |-> <<STAR>>, direction |-> "ASC"]>> }

\* limit and offset as callers combine them: neither, a zero limit, a page
\* below the cap, the cap itself, and twice the cap
Pages ==
    { [limit |-> Unset, offset |-> Unset],
      [limit |-> Some(0), offset |-> Some(0)],
      [limit |-> Some(25), offset |-> Some(50)],
      [limit |-> Some(MAX_ROWS), offset |-> Unset],
      [limit |-> Some(2 * MAX_ROWS), offset |-> Some(0)] }

---------------------------------------------------------------------------
(* The compiler                                                            *)

\* A piece of SQL text: the chunks `t`, and in `n` the descriptor's name the
\* piece renders (Unset for the template's own text).
Kw(s) == [n |-> Unset, t |-> <<s>>]
Piece(name, text) == [n |-> Some(name), t |-> text]

RECURSIVE Cat(_)
Cat(pieces) ==
    IF pieces = <<>> THEN <<>> ELSE Head(pieces).t \o Cat(Tail(pieces))

RECURSIVE Join(_, _)
Join(groups, sep) ==
    IF groups = <<>> THEN <<>>
    ELSE IF Len(groups) = 1 THEN Head(groups)
    ELSE Head(groups) \o <<sep>> \o Join(Tail(groups), sep)

\* placeholder numbers that go on from where the previous compile stopped
DollarCarried(i) == "$" \o ToString(i + Len(out.params))

Dollar(i) == "$" \o ToString(i)

\* identifier.replace(/"/g, '\\"')
RECURSIVE ReplaceQuotes(_)
ReplaceQuotes(s) ==
    IF s = <<>> THEN <<>>
    ELSE (IF Head(s) = QUOTE THEN <<BSL, QUOTE>> ELSE <<Head(s)>>) \o ReplaceQuotes(Tail(s))

escapeIdentifier(identifier) ==
    <<QUOTE>> \o ReplaceQuotes(identifier) \o <<QUOTE>>

Ident(name) == Piece(name, escapeIdentifier(name))

\* The loop of buildWhereClause: one group of pieces per condition
RECURSIVE WhereLoop(_, _)
WhereLoop(entries, paramIndex) ==
    IF entries = <<>> THEN [conditions |-> <<>>, params |-> <<>>]
    ELSE LET e == Head(entries)
         IN  IF e.value = Null
             THEN LET rest == WhereLoop(Tail(entries), paramIndex)
                  IN  [conditions |-> <<<<Ident(e.key), Kw(" IS NULL")>>>> \o rest.conditions,
                       params |-> rest.params]
             ELSE LET rest == WhereLoop(Tail(entries), paramIndex + 1)
                  IN  [conditions |->
                           <<<<Ident(e.key), Kw(" = "), Kw(Dollar(paramIndex))>>>>
                               \o rest.conditions,
                       params |-> <<e.value>> \o rest.params]

\* the loop with each value written into the text in place of a placeholder
RECURSIVE WhereLoopInline(_, _)
WhereLoopInline(entries, paramIndex) ==
    IF entries = <<>> THEN [conditions |-> <<>>, params |-> <<>>]
    ELSE LET e == Head(entries)
             rest == WhereLoopInline(Tail(entries), paramIndex)
         IN  [conditions |->
                  <<(IF e.value = Null THEN <<Ident(e.key), Kw(" IS NULL")>>
                     ELSE <<Ident(e.key), Kw(" = "), Kw(e.value)>>)>> \o rest.conditions,
              params |-> rest.params]

buildWhereClauseInline(where, startParamIndex) ==
    LET loop == WhereLoopInline(where, startParamIndex)
    IN  [clause |-> IF Len(loop.conditions) > 0
                    THEN <<Kw("WHERE ")>> \o Join(loop.conditions, Kw(" AND "))
                    ELSE <<>>,
         params |-> loop.params]

\* the loop with the counter advanced on every filter, null or not
RECURSIVE WhereLoopCountsNull(_, _)
WhereLoopCountsNull(entries, paramIndex) ==
    IF entries = <<>> THEN [conditions |-> <<>>, params |-> <<>>]
    ELSE LET e == Head(entries)
             rest == WhereLoopCountsNull(Tail(entries), paramIndex + 1)
         IN  IF e.value = Null
             THEN [conditions |-> <<<<Ident(e.key), Kw(" IS NULL")>>>> \o rest.conditions,
                   params |-> rest.params]
             ELSE [conditions |->
                       <<<<Ident(e.key), Kw(" = "), Kw(Dollar(paramIndex))>>>>
                           \o rest.conditions,
                   params |-> <<e.value>> \o rest.params]

buildWhereClauseCountsNull(where, startParamIndex) ==
    LET loop == WhereLoopCountsNull(where, startParamIndex)
    IN  [clause |-> IF Len(loop.conditions) > 0
                    THEN <<Kw("WHERE ")>> \o Join(loop.conditions, Kw(" AND "))
                    ELSE <<>>,
         params |-> loop.params]

buildWhereClause(where, startParamIndex) ==
    LET loop == WhereLoop(where, startParamIndex)
    IN  [clause |-> IF Len(loop.conditions) > 0
                    THEN <<Kw("WHERE ")>> \o Join(loop.conditions, Kw(" AND "))
                    ELSE <<>>,
         params |-> loop.params]

Ok(pieces, params) ==
    [status |-> "ok", sql |-> Cat(pieces), params |-> params, error |-> ""]
Throw(message) ==
    [status |-> "error", sql |-> <<>>, params |-> <<>>, error |-> message]

Min(a, b) == IF a < b THEN a ELSE b

SelectColumns(columns) ==
    IF Len(columns) > 0 /\ columns[1] = <<STAR>>
    THEN <<Piece(<<STAR>>, <<STAR>>)>>
    ELSE Join([i \in 1..Len(columns) |-> <<Ident(columns[i])>>], Kw(", "))

\* the limit without the cap
SelectLimitUncapped(limit) == IF limit = Unset THEN MAX_ROWS ELSE limit[1]

SelectLimit(limit) == Min(IF limit = Unset THEN MAX_ROWS ELSE limit[1], MAX_ROWS)

\* ORDER BY with the column name interpolated as the caller sent it
SelectOrderByRaw(orderBy) ==
    IF Len(orderBy) > 0
    THEN <<Kw(" ORDER BY ")>>
         \o Join([i \in 1..Len(orderBy) |->
                     <<Piece(orderBy[i].column, orderBy[i].column),
                       Kw(" " \o orderBy[i].direction)>>],
                 Kw(", "))
    ELSE <<>>

SelectOrderBy(orderBy) ==
    IF Len(orderBy) > 0
    THEN <<Kw(" ORDER BY ")>>
         \o Join([i \in 1..Len(orderBy) |->
                     <<Ident(orderBy[i].column), Kw(" " \o orderBy[i].direction)>>],
                 Kw(", "))
    ELSE <<>>

\* the query with OFFSET left out when the offset is 0
SelectPiecesTruthyOffset(options) ==
    LET whereResult == buildWhereClause(options.where, 1)
    IN  <<Kw("SELECT ")>> \o SelectColumns(options.columns)
        \o <<Kw(" FROM "), Ident(options.table)>>
        \o (IF Len(options.where) > 0 THEN <<Kw(" ")>> \o whereResult.clause ELSE <<>>)
        \o SelectOrderBy(options.orderBy)
        \o <<Kw(" LIMIT "), Kw(ToString(SelectLimit(options.limit)))>>
        \o (IF options.offset # Unset /\ options.offset[1] # 0
            THEN <<Kw(" OFFSET "), Kw(ToString(options.offset[1]))>> ELSE <<>>)

SelectPieces(options) ==
    LET whereResult == buildWhereClause(options.where, 1)
    IN  <<Kw("SELECT ")>> \o SelectColumns(options.columns)
        \o <<Kw(" FROM "), Ident(options.table)>>
        \o (IF Len(options.where) > 0 THEN <<Kw(" ")>> \o whereResult.clause ELSE <<>>)
        \o SelectOrderBy(options.orderBy)
        \o <<Kw(" LIMIT "), Kw(ToString(SelectLimit(options.limit)))>>
        \o (IF options.offset # Unset
            THEN <<Kw(" OFFSET "), Kw(ToString(options.offset[1]))>> ELSE <<>>)

buildSelectQuery(options) ==
    Ok(SelectPieces(options),
       IF Len(options.where) > 0 THEN buildWhereClause(options.where, 1).params ELSE <<>>)

InsertPieces(options) ==
    LET entries == options.data
    IN  <<Kw("INSERT INTO "), Ident(options.table), Kw(" (")>>
        \o Join([i \in 1..Len(entries) |-> <<Ident(entries[i].key)>>], Kw(", "))
        \o <<Kw(") VALUES (")>>
        \o Join([i \in 1..Len(entries) |-> <<Kw(Dollar(i))>>], Kw(", "))
        \o <<Kw(") RETURNING *")>>

\* Insert without the check for an empty value map
buildInsertQueryNoGuard(options) ==
    Ok(InsertPieces(options), [i \in 1..Len(options.data) |-> options.data[i].value])

buildInsertQuery(options) ==
    IF Len(options.data) = 0 THEN Throw("No data provided for insert")
    ELSE Ok(InsertPieces(options), [i \in 1..Len(options.data) |-> options.data[i].value])

\* Update with its WHERE placeholders numbered from 1 again
UpdatePiecesRestart(options) ==
    LET dataEntries == options.data
        whereResult == buildWhereClause(options.where, 1)
    IN  <<Kw("UPDATE "), Ident(options.table), Kw(" SET ")>>
        \o Join([i \in 1..Len(dataEntries) |->
                    <<Ident(dataEntries[i].key), Kw(" = "), Kw(Dollar(i))>>],
                Kw(", "))
        \o <<Kw(" ")>> \o whereResult.clause \o <<Kw(" RETURNING *")>>

UpdatePieces(options) ==
    LET dataEntries == options.data
        whereResult == buildWhereClause(options.where, Len(dataEntries) + 1)
    IN  <<Kw("UPDATE "), Ident(options.table), Kw(" SET ")>>
        \o Join([i \in 1..Len(dataEntries) |->
                    <<Ident(dataEntries[i].key), Kw(" = "), Kw(Dollar(i))>>],
                Kw(", "))
        \o <<Kw(" ")>> \o whereResult.clause \o <<Kw(" RETURNING *")>>

buildUpdateQuery(options) ==
    IF Len(options.data) = 0 THEN Throw("No data provided for update")
    ELSE IF Len(options.where) = 0 THEN Throw("WHERE clause required for update")
    ELSE Ok(UpdatePieces(options),
            [i \in 1..Len(options.data) |-> options.data[i].value]
                \o buildWhereClause(options.where, Len(options.data) + 1).params)

DeletePieces(options) ==
    <<Kw("DELETE FROM "), Ident(options.table), Kw(" ")>>
    \o buildWhereClause(options.where, 1).clause \o <<Kw(" RETURNING *")>>

\* Delete without the check for an empty filter map
buildDeleteQueryNoGuard(options) ==
    Ok(DeletePieces(options), buildWhereClause(options.where, 1).params)

buildDeleteQuery(options) ==
    IF Len(options.where) = 0 THEN Throw("WHERE clause required for delete")
    ELSE Ok(DeletePieces(options), buildWhereClause(options.where, 1).params)

\* The descriptors a caller may hand to each builder
SelectOptions ==
    { [kind |-> "select", table |-> t, columns |-> cols, where |-> w, orderBy |-> ob,
       limit |-> pg.limit, offset |-> pg.offset] :
          t \in Names, cols \in ColumnLists, w \in MapsUpTo(MaxFilters),
          ob \in OrderLists, pg \in Pages }
InsertOptions == [kind : {"insert"}, table : Names, data : MapsUpTo(MaxData)]
UpdateOptions ==
    [kind : {"update"}, table : Names, data : MapsUpTo(MaxData), where : MapsUpTo(MaxFilters)]
DeleteOptions == [kind : {"delete"}, table : Names, where : MapsUpTo(MaxFilters)]

NoOp == [kind |-> "none"]
NoDb == [seeded |-> FALSE]
NoResp == [handler |-> "none", n |-> 0]
NoHttp == [path |-> "none"]
NoMembers == [exists |-> FALSE]
NoVault == [origin |-> "none"]
NoRoles == [userRole |-> "", requiredRole |-> "", thirdRole |-> ""]
NoOut == [status |-> "none", sql |-> <<>>, params |-> <<>>, error |-> ""]

Pieces(o) ==
    CASE o.kind = "select" -> SelectPieces(o)
      [] o.kind = "insert" -> InsertPieces(o)
      [] o.kind = "update" -> UpdatePieces(o)
      [] o.kind = "delete" -> DeletePieces(o)
      [] OTHER -> <<>>

Build(o) ==
    CASE o.kind = "select" -> buildSelectQuery(o)
      [] o.kind = "insert" -> buildInsertQuery(o)
      [] o.kind = "update" -> buildUpdateQuery(o)
      [] o.kind = "delete" -> buildDeleteQuery(o)
      [] OTHER -> NoOut

\* Each action is one call of a builder on the descriptor the caller holds.
CompileSelect ==
    /\ op.kind = "select" /\ out = NoOut
    /\ out' = buildSelectQuery(op)
    /\ UNCHANGED <<op, varsExec, varsRest>>

CompileInsert ==
    /\ op.kind = "insert" /\ out = NoOut
    /\ out' = buildInsertQuery(op)
    /\ UNCHANGED <<op, varsExec, varsRest>>

CompileUpdate ==
    /\ op.kind = "update" /\ out = NoOut
    /\ out' = buildUpdateQuery(op)
    /\ UNCHANGED <<op, varsExec, varsRest>>

CompileDelete ==
    /\ op.kind = "delete" /\ out = NoOut
    /\ out' = buildDeleteQuery(op)
    /\ UNCHANGED <<op, varsExec, varsRest>>

\* The caller's descriptor is any descriptor of the four kinds.
InitCompile ==
    /\ op \in SelectOptions \cup InsertOptions \cup UpdateOptions \cup DeleteOptions
    /\ out = NoOut
    /\ calls = <<>>
    /\ pools = <<>>
    /\ seen = <<>>
    /\ db = NoDb
    /\ resp = NoResp
    /\ http = NoHttp
    /\ vault = NoVault
    /\ roles = NoRoles
    /\ org = NoMembers
    /\ reqs = <<>>

NextCompile == CompileSelect \/ CompileInsert \/ CompileUpdate \/ CompileDelete

SpecCompile == InitCompile /\ [][NextCompile]_vars

---------------------------------------------------------------------------
(* Reading a compiled text back                                            *)

\* PostgreSQL's scan of double-quoted identifiers: a double quote opens an
\* identifier; inside it two double quotes stand for one and a single one
\* closes it; a backslash is an ordinary character.  Returns the identifiers
\* read, the chunks left outside any identifier, and whether the text ends
\* inside an identifier.
RECURSIVE PgScan(_, _, _)
PgScan(s, inside, cur) ==
    IF s = <<>> THEN [idents |-> <<>>, outside |-> <<>>, open |-> inside]
    ELSE IF ~inside
    THEN IF Head(s) = QUOTE THEN PgScan(Tail(s), TRUE, <<>>)
         ELSE LET r == PgScan(Tail(s), FALSE, <<>>)
              IN  [r EXCEPT !.outside = <<Head(s)>> \o @]
    ELSE IF Head(s) # QUOTE THEN PgScan(Tail(s), TRUE, Append(cur, Head(s)))
    ELSE IF Len(s) >= 2 /\ s[2] = QUOTE
    THEN PgScan(Tail(Tail(s)), TRUE, Append(cur, QUOTE))
    ELSE LET r == PgScan(Tail(s), FALSE, <<>>)
         IN  [r EXCEPT !.idents = <<cur>> \o @]

Keys(m) == [i \in 1..Len(m) |-> m[i].key]
Vals(m) == [i \in 1..Len(m) |-> m[i].value]
NonNull(m) == SelectSeq(m, LAMBDA e : e.value # Null)
IsWildcard(columns) == Len(columns) > 0 /\ columns[1] = <<STAR>>

\* The names of a descriptor that its text has to carry as identifiers
IdentNames(o) ==
    CASE o.kind = "select" ->
             (IF IsWildcard(o.columns) THEN <<>> ELSE o.columns) \o <<o.table>>
                 \o Keys(o.where) \o [i \in 1..Len(o.orderBy) |-> o.orderBy[i].column]
      [] o.kind = "insert" -> <<o.table>> \o Keys(o.data)
      [] o.kind = "update" -> <<o.table>> \o Keys(o.data) \o Keys(o.where)
      [] o.kind = "delete" -> <<o.table>> \o Keys(o.where)
      [] OTHER -> <<>>

\* The characters of the names, which the templates themselves never emit
NameOnlyChars == { "a", QUOTE, BSL }

\* name with every double quote doubled
RECURSIVE Doubled(_)
Doubled(s) ==
    IF s = <<>> THEN <<>>
    ELSE (IF Head(s) = QUOTE THEN <<QUOTE, QUOTE>> ELSE <<Head(s)>>) \o Doubled(Tail(s))

NamePieces(pieces) == SelectSeq(pieces, LAMBDA p : p.n # Unset)
IsBypass(p) == p.n = Some(<<STAR>>) /\ p.t = <<STAR>>

Compiled == out.status = "ok"

\* C1: every table or column name is emitted as one complete PostgreSQL
\* quoted identifier: the token starts and ends with a double quote and has
\* every double quote of the name doubled, so PostgreSQL reads the text back
\* as exactly the descriptor's names and no character of a name lies outside
\* an identifier.
C1_QuotedIdentifiers ==
    Compiled =>
        LET scan == PgScan(out.sql, FALSE, <<>>)
            named == NamePieces(Pieces(op))
        IN  /\ \A i \in 1..Len(named) :
                   IsBypass(named[i])
                   \/ named[i].t = <<QUOTE>> \o Doubled(named[i].n[1]) \o <<QUOTE>>
            /\ ~scan.open
            /\ scan.idents = IdentNames(op)
            /\ \A i \in 1..Len(scan.outside) : scan.outside[i] \notin NameOnlyChars

\* every name of the descriptor, in the order the templates place them
AllNames(o) ==
    IF o.kind = "select" /\ IsWildcard(o.columns)
    THEN <<<<STAR>>>> \o IdentNames(o) ELSE IdentNames(o)

\* C2: in every compiled query the table name and every column name (SELECT
\* list, INSERT list, SET, WHERE, ORDER BY) is emitted through the one
\* escaping function; the only name emitted as it was supplied is the
\* wildcard * of the SELECT list.
C2_UniformEscaping ==
    Compiled =>
        LET pieces == Pieces(op)
            named == NamePieces(pieces)
        IN  /\ out.sql = Cat(pieces)
            /\ [i \in 1..Len(named) |-> named[i].n[1]] = AllNames(op)
            /\ \A i \in 1..Len(named) :
                   \/ named[i].t = escapeIdentifier(named[i].n[1])
                   \/ /\ IsBypass(named[i])
                      /\ op.kind = "select" /\ i = 1 /\ IsWildcard(op.columns)
            /\ \A i, j \in 1..Len(named) :
                   (named[i].n = named[j].n /\ ~IsBypass(named[i]) /\ ~IsBypass(named[j]))
                       => named[i].t = named[j].t

\* a WHERE key other than the wildcard, and the wildcard itself as a key,
\* both compiled
C2_Witness ==
    /\ Compiled /\ op.kind = "update"
    /\ Keys(op.where) = <<<<STAR>>, <<"a", QUOTE, BSL>>>>
    /\ Keys(op.data) = <<<<STAR>>>>

---------------------------------------------------------------------------
(* Values and placeholders                                                 *)

MaxParams == MaxData + MaxFilters
Placeholders == { Dollar(n) : n \in 1..MaxParams }
IsPlaceholder(chunk) == chunk \in Placeholders
PlaceholderIndex(chunk) == CHOOSE n \in 1..MaxParams : Dollar(n) = chunk

\* the entries of a descriptor that carry a value to the database, in order
ValueSlots(o) ==
    CASE o.kind = "select" -> NonNull(o.where)
      [] o.kind = "insert" -> o.data
      [] o.kind = "update" -> o.data \o NonNull(o.where)
      [] o.kind = "delete" -> NonNull(o.where)
      [] OTHER -> <<>>

\* the (name, placeholder) pairs a text binds: `<name> = $n` in SET and
\* WHERE, and the i-th column with the i-th placeholder of an INSERT
AssignSlots(pieces) ==
    LET at == { i \in 1..Len(pieces) :
                  /\ i + 2 <= Len(pieces)
                  /\ pieces[i].n # Unset
                  /\ pieces[i + 1] = Kw(" = ")
                  /\ pieces[i + 2].n = Unset /\ IsPlaceholder(pieces[i + 2].t[1]) }
        picked == SelectSeq([i \in 1..Len(pieces) |-> i], LAMBDA i : i \in at)
    IN  [j \in 1..Len(picked) |->
            [key |-> pieces[picked[j]].n[1], ph |-> pieces[picked[j] + 2].t[1]]]

InsertSlots(pieces) ==
    LET named == NamePieces(pieces)
        phs == SelectSeq(pieces, LAMBDA p : p.n = Unset /\ IsPlaceholder(p.t[1]))
    IN  IF Len(phs) # Len(named) - 1 THEN <<>>
        ELSE [j \in 1..Len(phs) |-> [key |-> named[j + 1].n[1], ph |-> phs[j].t[1]]]

TextSlots(o) ==
    IF o.kind = "insert" THEN InsertSlots(Pieces(o)) ELSE AssignSlots(Pieces(o))

\* the descriptor with every non-null value v replaced by f[v]
Revalue(o, f) ==
    LET re(m) == [i \in 1..Len(m) |->
                     [m[i] EXCEPT !.value = IF @ = Null THEN Null ELSE f[@]]]
    IN  CASE o.kind = "insert" -> [o EXCEPT !.data = re(@)]
          [] o.kind = "update" -> [o EXCEPT !.data = re(@), !.where = re(@)]
          [] OTHER -> [o EXCEPT !.where = re(@)]

NonNullValues == Values \ {Null}

\* the descriptor with every non-null value replaced by one fixed value
SameValues(o) == Revalue(o, [v \in NonNullValues |-> "v1"])

\* C3: no filter or assignment value is concatenated into the text: the
\* text is that of the descriptor with all its non-null values made equal
\* (so descriptors differing only in those values share one text), no chunk
\* of it is a value, and the value of each entry is the parameter at the
\* index of the placeholder the text binds to that entry's column.
C3_ValuesOnlyAsParameters ==
    Compiled =>
        LET slots == TextSlots(op)
            want == ValueSlots(op)
        IN  /\ Build(SameValues(op)).sql = out.sql
            /\ \A i \in 1..Len(out.sql) : out.sql[i] \notin Values
            /\ Len(slots) = Len(want)
            /\ \A j \in 1..Len(slots) :
                   /\ slots[j].key = want[j].key
                   /\ PlaceholderIndex(slots[j].ph) <= Len(out.params)
                   /\ out.params[PlaceholderIndex(slots[j].ph)] = want[j].value

\* an UPDATE whose SET and WHERE carry different values, one filter null
C3_Witness ==
    /\ Compiled /\ op.kind = "update"
    /\ Vals(op.data) = <<"v2">>
    /\ Vals(op.where) = <<Null, "v1">>
    /\ out.params = <<"v2", "v1">>

RECURSIVE SplitAt(_, _, _)
SplitAt(pieces, sep, cur) ==
    IF pieces = <<>> THEN <<cur>>
    ELSE IF Head(pieces) = sep THEN <<cur>> \o SplitAt(Tail(pieces), sep, <<>>)
    ELSE SplitAt(Tail(pieces), sep, Append(cur, Head(pieces)))

ClauseEnd == { Kw(" ORDER BY "), Kw(" LIMIT "), Kw(" RETURNING *") }

WhereConditions(pieces) ==
    LET starts == { i \in 1..Len(pieces) : pieces[i] = Kw("WHERE ") }
    IN  IF starts = {} THEN <<>>
        ELSE LET b == CHOOSE i \in starts : TRUE
                 e == CHOOSE i \in (b + 1)..Len(pieces) :
                          /\ pieces[i] \in ClauseEnd
                          /\ \A k \in (b + 1)..(i - 1) : pieces[k] \notin ClauseEnd
             IN  SplitAt(SubSeq(pieces, b + 1, e - 1), Kw(" AND "), <<>>)

HasWhere(o) == o.kind \in {"select", "update", "delete"}
FirstFilterIndex(o) == IF o.kind = "update" THEN Len(o.data) + 1 ELSE 1
NonNullBefore(m, j) == Len(NonNull(SubSeq(m, 1, j - 1)))

\* C5: in the WHERE clause of Select, Update and Delete a null filter
\* compiles to `<col> IS NULL` and adds no parameter and no placeholder
\* number; a non-null filter compiles to `<col> = $n` with one parameter,
\* n counting only the non-null filters before it.
C5_NullFilters ==
    (Compiled /\ HasWhere(op)) =>
        LET conds == WhereConditions(Pieces(op))
            first == FirstFilterIndex(op)
        IN  /\ Len(conds) = Len(op.where)
            /\ \A j \in 1..Len(conds) :
                   LET e == op.where[j]
                       n == first + NonNullBefore(op.where, j)
                   IN  IF e.value = Null
                       THEN conds[j] = <<Ident(e.key), Kw(" IS NULL")>>
                       ELSE /\ conds[j] = <<Ident(e.key), Kw(" = "), Kw(Dollar(n))>>
                            /\ out.params[n] = e.value
            /\ Len(out.params) = first - 1 + Len(NonNull(op.where))
            /\ out.sql = Cat(Pieces(op))

\* a null filter ahead of a non-null one, which still gets $1
C5_Witness ==
    /\ Compiled /\ op.kind = "select"
    /\ Vals(op.where) = <<Null, "v2">>
    /\ out.params = <<"v2">>

MutationOf(o) == o.kind \in {"update", "delete"}
Called == out # NoOut

\* C6 as stated: Update and Delete with an empty filter map raise "WHERE
\* clause required for update" / "... for delete" and return no SQL; every
\* text they return has a WHERE clause with at least one condition.
C6_AsStated ==
    (Called /\ MutationOf(op)) =>
        /\ Len(op.where) = 0 =>
               /\ out.status = "error" /\ out.sql = <<>>
               /\ out.error = "WHERE clause required for " \o op.kind
        /\ Compiled =>
               /\ Len(WhereConditions(Pieces(op))) >= 1
               /\ \E i \in 1..Len(out.sql) : out.sql[i] = "WHERE "

\* C6 amended: with an empty filter map Delete raises "WHERE clause required
\* for delete" and Update raises "WHERE clause required for update", or "No
\* data provided for update" when its value map is empty too; no SQL is
\* returned; every returned text has a WHERE clause with a condition.
C6_MutationGuard ==
    (Called /\ MutationOf(op)) =>
        /\ Len(op.where) = 0 =>
               /\ out.status = "error" /\ out.sql = <<>>
               /\ out.error =
                      IF op.kind = "update" /\ Len(op.data) = 0
                      THEN "No data provided for update"
                      ELSE "WHERE clause required for " \o op.kind
        /\ Compiled =>
               /\ Len(WhereConditions(Pieces(op))) >= 1
               /\ \E i \in 1..Len(out.sql) : out.sql[i] = "WHERE "

\* a Delete without filters has been refused
C6_Witness ==
    /\ op.kind = "delete" /\ Len(op.where) = 0
    /\ out.status = "error"

\* C7: Insert with an empty value map, and Update with an empty value map
\* whatever its filters, raise a validation error and return no SQL.
C7_EmptyValues ==
    (Called /\ op.kind \in {"insert", "update"} /\ Len(op.data) = 0) =>
        /\ out.status = "error"
        /\ out.error = "No data provided for " \o op.kind
        /\ out.sql = <<>> /\ out.params = <<>>

\* an Update with filters but no values has been refused
C7_Witness ==
    /\ op.kind = "update" /\ Len(op.data) = 0 /\ Len(op.where) = 2
    /\ out.status = "error"

\* the decimal texts of the numbers 0..MAX_ROWS
CappedTexts == { ToString(n) : n \in 0..MAX_ROWS }

LimitAt == { i \in 1..Len(out.sql) : out.sql[i] = " LIMIT " }
RequestedCap(limit) ==
    IF limit = Unset THEN MAX_ROWS
    ELSE IF limit[1] > MAX_ROWS THEN MAX_ROWS ELSE limit[1]

\* C8: the text of a Select has exactly one LIMIT clause; its value is
\* min(L, 1000) for a requested limit L and 1000 when none is requested, so
\* never above 1000.
C8_RowCap ==
    (Compiled /\ op.kind = "select") =>
        /\ Cardinality(LimitAt) = 1
        /\ \A i \in LimitAt :
               /\ i < Len(out.sql)
               /\ out.sql[i + 1] = ToString(RequestedCap(op.limit))
               /\ out.sql[i + 1] \in CappedTexts

\* a requested limit above the cap compiled to LIMIT 1000
C8_Witness ==
    /\ Compiled /\ op.kind = "select"
    /\ op.limit = Some(2 * MAX_ROWS)
    /\ \E i \in LimitAt : out.sql[i + 1] = "1000"

\* the text between SELECT and FROM
ColumnText ==
    LET from == CHOOSE i \in 1..Len(out.sql) :
                    /\ out.sql[i] = " FROM "
                    /\ \A j \in 1..(i - 1) : out.sql[j] # " FROM "
    IN  SubSeq(out.sql, 2, from - 1)

\* each column through escapeIdentifier, comma-joined in the caller's order
RECURSIVE EscapedList(_)
EscapedList(columns) ==
    IF columns = <<>> THEN <<>>
    ELSE escapeIdentifier(Head(columns))
             \o (IF Len(columns) > 1 THEN <<", ">> \o EscapedList(Tail(columns)) ELSE <<>>)

\* C14: a Select emits the unquoted * exactly when its column list is the
\* one-element list ["*"]; every other list, also one of several elements
\* that starts with "*", is emitted column by column as escaped identifiers,
\* comma-joined in the caller's order.
C14_WildcardOnlyAlone ==
    (Compiled /\ op.kind = "select") =>
        ColumnText = IF op.columns = <<<<STAR>>>> THEN <<STAR>>
                     ELSE EscapedList(op.columns)

\* the clause keywords of a Select, in the order the claim fixes
SelectClauses == <<"SELECT ", " FROM ", "WHERE ", " ORDER BY ", " LIMIT ", " OFFSET ">>
ClauseWords == { SelectClauses[i] : i \in 1..Len(SelectClauses) }
At(kw) == { i \in 1..Len(out.sql) : out.sql[i] = kw }
Pos(kw) == CHOOSE i \in At(kw) : TRUE

\* the text that follows a clause keyword, up to the next clause or the end
ClauseText(kw) ==
    LET later == { i \in (Pos(kw) + 1)..Len(out.sql) : out.sql[i] \in ClauseWords }
        e == IF later = {} THEN Len(out.sql) + 1
             ELSE CHOOSE i \in later : \A k \in later : i <= k
    IN  SubSeq(out.sql, Pos(kw) + 1, e - 1)

\* `<col> ASC, <col> DESC` for the entries of an ordering list, in order
RECURSIVE OrderText(_)
OrderText(orderBy) ==
    IF orderBy = <<>> THEN <<>>
    ELSE escapeIdentifier(Head(orderBy).column) \o <<" " \o Head(orderBy).direction>>
             \o (IF Len(orderBy) > 1 THEN <<", ">> \o OrderText(Tail(orderBy)) ELSE <<>>)

\* the text of one condition is about that column: the escaped name, then
\* IS NULL or a placeholder comparison
ConditionOn(text, key) ==
    LET name == escapeIdentifier(key)
    IN  /\ Len(text) > Len(name)
        /\ SubSeq(text, 1, Len(name)) = name
        /\ LET rest == SubSeq(text, Len(name) + 1, Len(text))
           IN  rest = <<" IS NULL">> \/ (Len(rest) = 2 /\ rest[1] = " = ")

\* C23: the text of a Select has its clauses in the order SELECT, FROM,
\* WHERE, ORDER BY, LIMIT, OFFSET, each at most once; WHERE is there exactly
\* when the filter map is non-empty, one condition per filter in the caller's
\* order joined by AND; ORDER BY exactly when the ordering list is non-empty,
\* entry by entry in the caller's order; LIMIT always; OFFSET exactly when an
\* offset was supplied (0 included), followed by that integer.
C23_ClauseOrder ==
    (Compiled /\ op.kind = "select") =>
        /\ \A i \in 1..Len(SelectClauses) : Cardinality(At(SelectClauses[i])) <= 1
        /\ \A i, j \in 1..Len(SelectClauses) :
               (i < j /\ At(SelectClauses[i]) # {} /\ At(SelectClauses[j]) # {})
                   => Pos(SelectClauses[i]) < Pos(SelectClauses[j])
        /\ At("SELECT ") = {1} /\ At(" FROM ") # {} /\ At(" LIMIT ") # {}
        /\ (At("WHERE ") # {}) <=> (Len(op.where) > 0)
        /\ At("WHERE ") # {} =>
               LET conds == SplitAt(ClauseText("WHERE "), " AND ", <<>>)
               IN  /\ Len(conds) = Len(op.where)
                   /\ \A j \in 1..Len(conds) : ConditionOn(conds[j], op.where[j].key)
        /\ (At(" ORDER BY ") # {}) <=> (Len(op.orderBy) > 0)
        /\ At(" ORDER BY ") # {} => ClauseText(" ORDER BY ") = OrderText(op.orderBy)
        /\ (At(" OFFSET ") # {}) <=> (op.offset # Unset)
        /\ At(" OFFSET ") # {} =>
               /\ ClauseText(" OFFSET ") = <<ToString(op.offset[1])>>
               /\ Pos(" OFFSET ") = Len(out.sql) - 1

\* two filters, two ordering entries and an offset of 0, all compiled
C23_Witness ==
    /\ Compiled /\ op.kind = "select"
    /\ Len(op.where) = 2 /\ Len(op.orderBy) = 2 /\ op.offset = Some(0)
    /\ At(" OFFSET ") # {} /\ At("WHERE ") # {} /\ At(" ORDER BY ") # {}

---------------------------------------------------------------------------
(* The executor and the introspector                                       *)

\* Calls that may be in flight together
MaxCalls == 1
CallIds == 1..MaxCalls

\* the estimate below which getTableRowCount counts exactly
COUNT_THRESHOLD == 10000

Resolved(v) == [status |-> "resolved", value |-> v, error |-> ""]
Rejected(e) == [status |-> "rejected", value |-> Unset, error |-> e]

\* What the driver may answer
QueryErrors == { "connection refused", "query timeout" }
EndErrors == { "end failed" }
DriverResults ==
    { [rows |-> <<>>, rowCount |-> Unset],
      [rows |-> <<"r1">>, rowCount |-> Some(1)],
      [rows |-> <<"r1", "r2">>, rowCount |-> Some(2)] }
\* table_name values the listing query answers with, in ORDER BY table_name
\* order: base tables of the public schema, whatever they are called
TableRows ==
    { <<>>,
      << <<"o", "r", "d", "e", "r", "s">> >>,
      << <<"o", "r", "d", "e", "r", "s">>, <<"p", "g", "_", "j", "o", "b", "s">> >> }
ColumnRows ==
    { <<[column_name |-> "id", data_type |-> "integer", is_nullable |-> "NO",
         column_default |-> Some("nextval()")]>>,
      <<[column_name |-> "product_id", data_type |-> "uuid", is_nullable |-> "NO",
         column_default |-> Unset],
        [column_name |-> "note", data_type |-> "text", is_nullable |-> "YES",
         column_default |-> Unset]>> }
PkRows == { <<>>, <<"order_id", "product_id">> }
\* rows[0]?.estimate and rows[0]?.count: absent, or a decimal text
EstimateRows ==
    { Unset, Some(-1), Some(0), Some(COUNT_THRESHOLD - 1), Some(COUNT_THRESHOLD),
      Some(COUNT_THRESHOLD + 1) }
CountRows == { Unset, Some(7) }

\* Descriptors handed to the executor: one that compiles per kind and one
\* that fails validation where the builder has a check
ExecOptions ==
    { [kind |-> "select", table |-> <<"a">>, columns |-> <<<<STAR>>>>, where |-> <<>>,
       orderBy |-> <<>>, limit |-> Some(2 * MAX_ROWS), offset |-> Unset],
      [kind |-> "insert", table |-> <<"a">>, data |-> <<[key |-> <<"a">>, value |-> "v1"]>>],
      [kind |-> "insert", table |-> <<"a">>, data |-> <<>>],
      [kind |-> "update", table |-> <<"a">>, data |-> <<[key |-> <<"a">>, value |-> "v1"]>>,
       where |-> <<[key |-> <<"a">>, value |-> "v2"]>>],
      [kind |-> "update", table |-> <<"a">>, data |-> <<[key |-> <<"a">>, value |-> "v1"]>>,
       where |-> <<>>],
      [kind |-> "delete", table |-> <<"a">>, where |-> <<[key |-> <<"a">>, value |-> Null]>>],
      [kind |-> "delete", table |-> <<"a">>, where |-> <<>>] }

IdleCall ==
    [kind |-> "idle", pc |-> "idle", arg |-> Unset, step |-> "", listed |-> <<>>,
     todo |-> <<>>, columns |-> <<>>, tables |-> <<>>, estimate |-> Unset,
     pending |-> Unset, outcome |-> Unset, queryError |-> Unset, answers |-> <<>>,
     result |-> Unset, sent |-> <<>>]

\* pool.query and pool.end, as events on the pool's log
QueryEvent(c) == [by |-> c, what |-> "query"]
EndEvent(c) == [by |-> c, what |-> "end"]

\* one module-level pool that every call uses
createPoolShared(c) == 1

\* const pool = createPool(config): a new Pool on every call, known to that
\* call alone; pools are named after the call that created them
createPool(c) == c

\* a finally block that is skipped when the try block threw
FinallyOnSuccessOnly(log, c, completion) ==
    IF completion.status = "rejected" THEN log ELSE Append(log, EndEvent(c))

\* finally { await pool.end(); }: whatever the try block completed with, the
\* pool is ended
Finally(log, c, completion) == Append(log, EndEvent(c))

\* the try block has completed (returned or thrown): run the finally block
Complete(c, completion) ==
    /\ calls' = [calls EXCEPT ![c].pc = "ending", ![c].pending = Some(completion),
                              ![c].step = ""]
    /\ pools' = [pools EXCEPT ![createPool(c)] = Finally(@, c, completion)]

\* the try block issues its next query and awaits it
Await(c, step, call) ==
    /\ calls' = [calls EXCEPT ![c] = [call EXCEPT !.pc = "querying", !.step = step]]
    /\ pools' = [pools EXCEPT ![createPool(c)] = Append(@, QueryEvent(c))]

\* a result cut down to its first row
RowsResultFirstRow(result) ==
    [rows |-> IF Len(result.rows) > 0 THEN <<result.rows[1]>> ELSE <<>>,
     rowCount |-> IF result.rowCount = Unset THEN 0 ELSE result.rowCount[1]]

\* result.rowCount ?? 0, and rows[0]
RowsResult(result) ==
    [rows |-> result.rows,
     rowCount |-> IF result.rowCount = Unset THEN 0 ELSE result.rowCount[1]]
InsertResult(result) ==
    [row |-> IF Len(result.rows) > 0 THEN Some(result.rows[1]) ELSE Unset]

ColumnInfo(col) ==
    [name |-> col.column_name, type |-> col.data_type,
     nullable |-> (col.is_nullable = "YES"),
     hasDefault |-> (col.column_default # Unset),
     defaultValue |-> col.column_default]

\* a table entry that keeps the first primary-key column only
TableInfoFirstKeyColumn(tableName, columnRows, pkRows) ==
    [name |-> tableName,
     columns |-> [i \in 1..Len(columnRows) |-> ColumnInfo(columnRows[i])],
     primaryKey |-> IF pkRows = <<>> THEN <<>> ELSE <<pkRows[1]>>]

\* tables.push({ name: tableName, columns, primaryKey })
TableInfo(tableName, columnRows, pkRows) ==
    [name |-> tableName,
     columns |-> [i \in 1..Len(columnRows) |-> ColumnInfo(columnRows[i])],
     primaryKey |-> pkRows]

\* what a per-table query was answered: the step, the table name bound as
\* its $1, and the rows
Answer(call, rows) == [step |-> call.step, table |-> Head(call.todo), rows |-> rows]

\* the two statements of getTableRowCount: the estimate with the table name
\* bound as $1, and the exact count with the name between double quotes
EstimatePieces ==
    <<Kw("SELECT reltuples::bigint AS estimate FROM pg_class WHERE relname = "),
      Kw(Dollar(1))>>
CountPieces(tableName) ==
    <<Kw("SELECT COUNT(*) as count FROM "),
      Piece(tableName, <<QUOTE>> \o tableName \o <<QUOTE>>)>>

\* executeSelect / executeInsert / executeUpdate / executeDelete up to the
\* first await: create the pool, compile, and send the query or throw
StartExecute(c) ==
    /\ calls[c].pc = "idle"
    /\ \E o \in ExecOptions :
           LET call == [calls[c] EXCEPT !.kind = o.kind, !.arg = Some(o)]
               compiled == Build(o)
           IN  IF compiled.status = "error"
               THEN /\ calls' = [calls EXCEPT
                                    ![c] = [call EXCEPT !.pc = "ending",
                                               !.pending = Some(Rejected(compiled.error))]]
                    /\ pools' = [pools EXCEPT
                                    ![createPool(c)] = Finally(@, c, Rejected(compiled.error))]
               ELSE Await(c, "query", call)
    /\ UNCHANGED <<varsCompile, varsRest>>

\* introspectPostgresSchema up to the table-listing query
StartIntrospect(c) ==
    /\ calls[c].pc = "idle"
    /\ Await(c, "tables", [calls[c] EXCEPT !.kind = "introspect"])
    /\ UNCHANGED <<varsCompile, varsRest>>

\* getTableRowCount up to the estimate query
StartRowCount(c) ==
    /\ calls[c].pc = "idle"
    /\ \E tableName \in Names :
           Await(c, "estimate",
                 [calls[c] EXCEPT !.kind = "rowcount", !.arg = Some(tableName),
                                  !.sent = <<[text |-> Cat(EstimatePieces),
                                              values |-> <<tableName>>]>>])
    /\ UNCHANGED <<varsCompile, varsRest>>

\* the query of an executor call resolves: shape the result and return
ExecuteResolves(c) ==
    /\ calls[c].pc = "querying" /\ calls[c].step = "query"
    /\ \E result \in DriverResults :
           /\ calls' = [calls EXCEPT
                            ![c].pc = "ending", ![c].step = "", ![c].result = Some(result),
                            ![c].pending =
                                Some(Resolved(IF calls[c].kind = "insert"
                                              THEN InsertResult(result)
                                              ELSE RowsResult(result)))]
           /\ pools' = [pools EXCEPT ![createPool(c)] = Finally(@, c, Resolved(result))]
    /\ UNCHANGED <<varsCompile, varsRest>>

\* the table-listing query resolves: start on the first table or return
TablesResolve(c) ==
    /\ calls[c].pc = "querying" /\ calls[c].step = "tables"
    /\ \E rows \in TableRows :
           IF rows = <<>>
           THEN /\ calls' = [calls EXCEPT ![c].pc = "ending", ![c].step = "",
                                          ![c].listed = rows,
                                          ![c].pending = Some(Resolved([tables |-> <<>>]))]
                /\ pools' = [pools EXCEPT ![createPool(c)] = Finally(@, c, Resolved([tables |-> <<>>]))]
           ELSE Await(c, "columns", [calls[c] EXCEPT !.listed = rows, !.todo = rows])
    /\ UNCHANGED <<varsCompile, varsRest>>

\* the column query of the current table resolves: ask for its primary key
ColumnsResolve(c) ==
    /\ calls[c].pc = "querying" /\ calls[c].step = "columns"
    /\ \E rows \in ColumnRows :
           Await(c, "pk", [calls[c] EXCEPT !.columns = rows,
                                          !.answers = Append(@, Answer(calls[c], rows))])
    /\ UNCHANGED <<varsCompile, varsRest>>

\* the primary-key query resolves: push the table, go on or return
PkResolves(c) ==
    /\ calls[c].pc = "querying" /\ calls[c].step = "pk"
    /\ \E rows \in PkRows :
           LET call == [calls[c] EXCEPT !.answers = Append(@, Answer(calls[c], rows))]
               table == TableInfo(Head(call.todo), call.columns, rows)
               tables == Append(call.tables, table)
           IN  IF Len(call.todo) > 1
               THEN Await(c, "columns",
                          [call EXCEPT !.todo = Tail(@), !.columns = <<>>, !.tables = tables])
               ELSE /\ calls' = [calls EXCEPT
                                    ![c] = [call EXCEPT !.pc = "ending", !.step = "",
                                               !.todo = <<>>, !.columns = <<>>,
                                               !.tables = tables,
                                               !.pending = Some(Resolved([tables |-> tables]))]]
                    /\ pools' = [pools EXCEPT
                                    ![createPool(c)] = Finally(@, c, Resolved([tables |-> tables]))]
    /\ UNCHANGED <<varsCompile, varsRest>>

\* the estimate query resolves: count exactly below the threshold
EstimateResolves(c) ==
    /\ calls[c].pc = "querying" /\ calls[c].step = "estimate"
    /\ \E row \in EstimateRows :
           LET estimate == IF row = Unset THEN 0 ELSE row[1]
           IN  IF estimate < COUNT_THRESHOLD
               THEN Await(c, "count",
                          [calls[c] EXCEPT
                              !.estimate = Some(estimate),
                              !.sent = Append(@, [text |-> Cat(CountPieces(calls[c].arg[1])),
                                                  values |-> <<>>])])
               ELSE /\ calls' = [calls EXCEPT ![c].pc = "ending", ![c].step = "",
                                              ![c].estimate = Some(estimate),
                                              ![c].pending = Some(Resolved(estimate))]
                    /\ pools' = [pools EXCEPT ![createPool(c)] = Finally(@, c, Resolved(estimate))]
    /\ UNCHANGED <<varsCompile, varsRest>>

\* the COUNT(*) query resolves
CountResolves(c) ==
    /\ calls[c].pc = "querying" /\ calls[c].step = "count"
    /\ \E row \in CountRows :
           Complete(c, Resolved(IF row = Unset THEN 0 ELSE row[1]))
    /\ UNCHANGED <<varsCompile, varsRest>>

\* any awaited query rejects: the try block throws that error
QueryRejects(c) ==
    /\ calls[c].pc = "querying"
    /\ \E e \in QueryErrors :
           /\ calls' = [calls EXCEPT ![c].pc = "ending", ![c].step = "",
                                     ![c].pending = Some(Rejected(e)),
                                     ![c].queryError = Some(e)]
           /\ pools' = [pools EXCEPT ![createPool(c)] = Finally(@, c, Rejected(e))]
    /\ UNCHANGED <<varsCompile, varsRest>>

\* pool.end() resolves: the call completes as the try block did
EndResolves(c) ==
    /\ calls[c].pc = "ending"
    /\ calls' = [calls EXCEPT ![c].pc = "done", ![c].outcome = calls[c].pending]
    /\ UNCHANGED <<pools, varsCompile, varsRest>>

\* pool.end() rejects: the error thrown in the finally block replaces the
\* completion of the try block
EndRejects(c) ==
    /\ calls[c].pc = "ending"
    /\ \E e \in EndErrors :
           calls' = [calls EXCEPT ![c].pc = "done", ![c].outcome = Some(Rejected(e))]
    /\ UNCHANGED <<pools, varsCompile, varsRest>>

InitExec ==
    /\ op = NoOp
    /\ out = NoOut
    /\ calls = [c \in CallIds |-> IdleCall]
    /\ pools = [c \in CallIds |-> <<>>]
    /\ seen = <<>>
    /\ db = NoDb
    /\ resp = NoResp
    /\ http = NoHttp
    /\ vault = NoVault
    /\ roles = NoRoles
    /\ org = NoMembers
    /\ reqs = <<>>

NextExec ==
    \E c \in CallIds :
        \/ StartExecute(c)
        \/ StartIntrospect(c)
        \/ StartRowCount(c)
        \/ ExecuteResolves(c)
        \/ TablesResolve(c)
        \/ ColumnsResolve(c)
        \/ PkResolves(c)
        \/ EstimateResolves(c)
        \/ CountResolves(c)
        \/ QueryRejects(c)
        \/ EndResolves(c)
        \/ EndRejects(c)

SpecExec == InitExec /\ [][NextExec]_vars

Ends(c) == { i \in 1..Len(pools[c]) : pools[c][i].what = "end" }
Queries(c) == { i \in 1..Len(pools[c]) : pools[c][i].what = "query" }

\* C9: every executor and introspector call ends the pool it opened exactly
\* once on every exit path (return, query rejection, validation error), the
\* end comes before the call's result or error, and no query follows it.
C9_PoolEndedOnce ==
    \A c \in CallIds :
        /\ Cardinality(Ends(c)) <= 1
        /\ \A i \in Ends(c) : i = Len(pools[c])
        /\ (calls[c].pc \in {"ending", "done"}) <=> (Cardinality(Ends(c)) = 1)
        /\ (calls[c].outcome # Unset) => (calls[c].pc = "done" /\ Cardinality(Ends(c)) = 1)
        /\ (calls[c].pc = "querying") => (Ends(c) = {} /\ Queries(c) # {})
        /\ \A i \in 1..Len(pools[c]) : pools[c][i].by = c

\* a Delete that failed validation has returned its error with the pool
\* ended once and never queried
C9_Witness ==
    \E c \in CallIds :
        /\ calls[c].kind = "delete" /\ calls[c].pc = "done"
        /\ calls[c].outcome = Some(Rejected("WHERE clause required for delete"))
        /\ pools[c] = <<EndEvent(c)>>

\* C10: when a query of a call fails the call rejects with that same error,
\* also when the pool teardown that follows fails; it never resolves and it
\* sends no further query.
C10_QueryErrorPreserved ==
    \A c \in CallIds :
        (calls[c].queryError # Unset) =>
            /\ \A i \in Ends(c) : i = Len(pools[c])
            /\ calls[c].pc \in {"ending", "done"}
            /\ calls[c].pc = "done" =>
                   calls[c].outcome = Some(Rejected(calls[c].queryError[1]))

\* the descriptor of an executor call fails the builder's validation
FailsValidation(c) ==
    /\ calls[c].kind \in {"insert", "update", "delete"}
    /\ Build(calls[c].arg[1]).status = "error"

\* C21: an executeInsert / executeUpdate / executeDelete whose descriptor
\* fails validation never calls the pool's query, and the caller receives the
\* validation error itself.
C21_ValidationErrorReachesCaller ==
    \A c \in CallIds :
        FailsValidation(c) =>
            /\ Queries(c) = {}
            /\ calls[c].pc = "done" =>
                   calls[c].outcome = Some(Rejected(Build(calls[c].arg[1]).error))

\* the call has returned a value or thrown
Done(c) == calls[c].pc = "done" /\ calls[c].outcome # Unset
Returned(c) == Done(c) /\ calls[c].outcome[1].status = "resolved"

\* C11: an introspection that returns holds one entry per table the listing
\* query answered, in that order; when the listing query or a column or
\* primary-key query failed it rejects with that query's error and returns
\* no snapshot, whatever it had read before.
C11_AllTablesOrError ==
    \A c \in CallIds :
        (calls[c].kind = "introspect" /\ Done(c)) =>
            /\ Returned(c) =>
                   LET tables == calls[c].outcome[1].value.tables
                   IN  /\ calls[c].queryError = Unset
                       /\ Len(tables) = Len(calls[c].listed)
                       /\ \A i \in 1..Len(tables) : tables[i].name = calls[c].listed[i]
            /\ calls[c].queryError # Unset =>
                   calls[c].outcome = Some(Rejected(calls[c].queryError[1]))

\* the prefix of the engine's internal catalogs
PG_PREFIX == <<"p", "g", "_">>
StartsWith(name, prefix) ==
    /\ Len(name) >= Len(prefix)
    /\ SubSeq(name, 1, Len(prefix)) = prefix

\* the characters of a statement after its first, template chunk
AfterTemplate(text) == SubSeq(text, 2, Len(text))

\* C26: every statement getTableRowCount sends either carries the table
\* name as a bound value with a placeholder in the text, or carries it in the
\* text as the escaped quoted identifier, every double quote of the name
\* escaped.
C26_TableNameEscaped ==
    \A c \in CallIds :
        calls[c].kind = "rowcount" =>
            \A i \in 1..Len(calls[c].sent) :
                LET q == calls[c].sent[i]
                IN  \/ /\ q.values = <<calls[c].arg[1]>>
                       /\ AfterTemplate(q.text) = <<Dollar(1)>>
                    \/ /\ q.values = <<>>
                       /\ AfterTemplate(q.text) = escapeIdentifier(calls[c].arg[1])

AnswerFor(c, step, i) ==
    LET hits == SelectSeq(calls[c].answers,
                          LAMBDA a : a.step = step /\ a.table = calls[c].listed[i])
    IN  hits[1].rows

\* C24: a returned snapshot lists the tables in the order of the listing
\* query; the entry of each table has one column per row the column query
\* for that table answered, in that order, and as primaryKey the rows the
\* primary-key query for that table answered, in that order: empty when there
\* were none, every column of a composite key.
C24_EntriesMatchTheirQueries ==
    \A c \in CallIds :
        (calls[c].kind = "introspect" /\ Returned(c)) =>
            LET tables == calls[c].outcome[1].value.tables
            IN  /\ [i \in 1..Len(tables) |-> tables[i].name] = calls[c].listed
                /\ Len(calls[c].answers) = 2 * Len(tables)
                /\ \A i \in 1..Len(tables) :
                       LET cols == AnswerFor(c, "columns", i)
                           pk == AnswerFor(c, "pk", i)
                       IN  /\ calls[c].answers[2 * i - 1].table = tables[i].name
                           /\ calls[c].answers[2 * i].table = tables[i].name
                           /\ [k \in 1..Len(tables[i].columns) |-> tables[i].columns[k].name]
                                  = [k \in 1..Len(cols) |-> cols[k].column_name]
                           /\ \A k \in 1..Len(cols) :
                                  /\ tables[i].columns[k].type = cols[k].data_type
                                  /\ tables[i].columns[k].nullable
                                         = (cols[k].is_nullable = "YES")
                                  /\ tables[i].columns[k].defaultValue = cols[k].column_default
                           /\ tables[i].primaryKey = pk

\* a snapshot of two tables: the first with two columns and a composite
\* key, the second with one column and no primary key
C24_Witness ==
    \E c \in CallIds :
        /\ calls[c].kind = "introspect" /\ Returned(c)
        /\ LET tables == calls[c].outcome[1].value.tables
           IN  /\ Len(tables) = 2
               /\ Len(tables[1].columns) = 2
               /\ tables[1].primaryKey = <<"order_id", "product_id">>
               /\ Len(tables[2].columns) = 1
               /\ tables[2].primaryKey = <<>>

\* C12: no table of a returned snapshot has a name that starts with pg_,
\* whatever base tables the listing query found in the public schema.
C12_NoCatalogPrefix ==
    \A c \in CallIds :
        (calls[c].kind = "introspect" /\ Returned(c)) =>
            \A i \in 1..Len(calls[c].outcome[1].value.tables) :
                ~StartsWith(calls[c].outcome[1].value.tables[i].name, PG_PREFIX)

\* C13: a row count that returns ran no COUNT(*) and returned the estimate
\* exactly when the estimate was above 10,000; for 10,000 or less (0, a
\* negative estimate, a missing catalog row) it ran COUNT(*).
C13_EstimateAboveThreshold ==
    \A c \in CallIds :
        (calls[c].kind = "rowcount" /\ Returned(c)) =>
            LET estimate == calls[c].estimate[1]
            IN  IF estimate > COUNT_THRESHOLD
                THEN /\ Cardinality(Queries(c)) = 1
                     /\ calls[c].outcome[1].value = estimate
                ELSE Cardinality(Queries(c)) = 2

---------------------------------------------------------------------------
(* Executor and introspector calls in flight together                      *)

\* Calls in flight at once
MaxConcurrent == 2
ConcurrentIds == 1..MaxConcurrent

InitPools ==
    /\ op = NoOp
    /\ out = NoOut
    /\ calls = [c \in ConcurrentIds |-> IdleCall]
    /\ pools = [c \in ConcurrentIds |-> <<>>]
    /\ seen = <<>>
    /\ db = NoDb
    /\ resp = NoResp
    /\ http = NoHttp
    /\ vault = NoVault
    /\ roles = NoRoles
    /\ org = NoMembers
    /\ reqs = <<>>

\* every await of every call is a point where another call may run; odd
\* callers run an executor function, even callers the introspector
NextPools ==
    \E c \in ConcurrentIds :
        \/ (c % 2 = 1 /\ StartExecute(c))
        \/ (c % 2 = 0 /\ StartIntrospect(c))
        \/ ExecuteResolves(c)
        \/ TablesResolve(c)
        \/ ColumnsResolve(c)
        \/ PkResolves(c)
        \/ QueryRejects(c)
        \/ EndResolves(c)
        \/ EndRejects(c)

SpecPools == InitPools /\ [][NextPools]_vars

\* the pool of call c has been created and not ended
Open(c) == pools[c] # <<>> /\ pools[c][Len(pools[c])].what # "end"

\* C22: with the awaits of concurrent executor and introspector calls
\* interleaved, every query and every end on a pool comes from the call that
\* created it, a call that is running or has run touched its own pool, and
\* once every call has completed every pool has been ended.
C22_PoolsNeverShared ==
    /\ \A c \in ConcurrentIds :
           /\ \A i \in 1..Len(pools[c]) : pools[c][i].by = c
           /\ calls[c].pc # "idle" => pools[c] # <<>>
           /\ calls[c].pc = "idle" => pools[c] = <<>>
    /\ (\A c \in ConcurrentIds : calls[c].pc = "done") =>
           \A c \in ConcurrentIds : ~Open(c) /\ pools[c] # <<>>

\* an executor call has completed and its pool is ended while an
\* introspection that began before is still awaiting a later query on its
\* own, open pool
C22_Witness ==
    /\ calls[1].pc = "done" /\ calls[1].kind = "update" /\ ~Open(1)
    /\ Len(pools[1]) = 2
    /\ calls[2].pc = "querying" /\ calls[2].step = "pk" /\ Open(2)
    /\ Len(pools[2]) = 3

---------------------------------------------------------------------------
(* The compiler called again and again, between executor calls             *)

\* Compiler calls in one run
MaxCompiles == 3

\* the descriptors compiled repeatedly: with parameters, without, refused
RepeatOptions ==
    { o \in ExecOptions :
          \/ o.kind = "update" /\ Len(o.where) > 0
          \/ o.kind = "delete" }

\* one more call of buildSelectQuery / buildInsertQuery / buildUpdateQuery /
\* buildDeleteQuery; the caller keeps what it returned or threw
Compile(o) ==
    /\ Len(seen) < MaxCompiles
    /\ op' = o
    /\ out' = Build(o)
    /\ seen' = Append(seen, [options |-> o, result |-> Build(o)])
    /\ UNCHANGED <<varsExec, varsVault, varsRoles, varsOrg, varsStore, varsProxy>>

InitRepeat ==
    /\ op = NoOp
    /\ out = NoOut
    /\ calls = [c \in CallIds |-> IdleCall]
    /\ pools = [c \in CallIds |-> <<>>]
    /\ seen = <<>>
    /\ db = NoDb
    /\ resp = NoResp
    /\ http = NoHttp
    /\ vault = NoVault
    /\ roles = NoRoles
    /\ org = NoMembers
    /\ reqs = <<>>

NextRepeat ==
    \/ \E o \in RepeatOptions : Compile(o)
    \/ \E c \in CallIds :
           \/ StartExecute(c)
           \/ ExecuteResolves(c)
           \/ QueryRejects(c)
           \/ EndResolves(c)
           \/ EndRejects(c)

SpecRepeat == InitRepeat /\ [][NextRepeat]_vars

---------------------------------------------------------------------------
(* Encryption of stored credentials                                        *)

IV_LENGTH == 16
AUTH_TAG_LENGTH == 16

\* the 32-byte key of ENCRYPTION_KEY, one fixed valid key
KEY == 7

\* Code units in a plaintext
MaxChars == 2

\* UTF-16 code units: a, e-acute, the euro sign, and the two halves of the
\* surrogate pair of U+1F600
CodeUnits == { 97, 233, 8364, 55357, 56832 }
Plaintexts == SeqsUpTo(CodeUnits, MaxChars)

\* randomBytes(IV_LENGTH)
IVs == { [i \in 1..IV_LENGTH |-> 0], [i \in 1..IV_LENGTH |-> (i * 17 + 154) % 256] }

IsHigh(cu) == cu >= 55296 /\ cu <= 56319
IsLow(cu) == cu >= 56320 /\ cu <= 57343

\* the "utf8" input encoding of cipher.update: a string to bytes
RECURSIVE Utf8Encode(_)
Utf8Encode(str) ==
    IF str = <<>> THEN <<>>
    ELSE LET cu == Head(str)
         IN  IF cu < 128 THEN <<cu>> \o Utf8Encode(Tail(str))
             ELSE IF cu < 2048
             THEN <<192 + (cu \div 64), 128 + (cu % 64)>> \o Utf8Encode(Tail(str))
             ELSE IF IsHigh(cu) /\ Len(str) > 1 /\ IsLow(str[2])
             THEN LET cp == 65536 + (cu - 55296) * 1024 + (str[2] - 56320)
                  IN  <<240 + (cp \div 262144), 128 + ((cp \div 4096) % 64),
                        128 + ((cp \div 64) % 64), 128 + (cp % 64)>>
                          \o Utf8Encode(Tail(Tail(str)))
             ELSE IF IsHigh(cu) \/ IsLow(cu)
             THEN <<239, 191, 189>> \o Utf8Encode(Tail(str))
             ELSE <<224 + (cu \div 4096), 128 + ((cu \div 64) % 64), 128 + (cu % 64)>>
                      \o Utf8Encode(Tail(str))

IsCont(bytes, i) == Len(bytes) >= i /\ bytes[i] >= 128 /\ bytes[i] < 192

\* the "utf8" output encoding of decipher.update: bytes to a string
RECURSIVE Utf8Decode(_)
Utf8Decode(bytes) ==
    IF bytes = <<>> THEN <<>>
    ELSE LET b == Head(bytes)
         IN  IF b < 128 THEN <<b>> \o Utf8Decode(Tail(bytes))
             ELSE IF b >= 192 /\ b < 224 /\ IsCont(bytes, 2)
             THEN <<(b - 192) * 64 + (bytes[2] - 128)>>
                      \o Utf8Decode(SubSeq(bytes, 3, Len(bytes)))
             ELSE IF b >= 224 /\ b < 240 /\ IsCont(bytes, 2) /\ IsCont(bytes, 3)
             THEN <<(b - 224) * 4096 + (bytes[2] - 128) * 64 + (bytes[3] - 128)>>
                      \o Utf8Decode(SubSeq(bytes, 4, Len(bytes)))
             ELSE IF b >= 240 /\ b < 248 /\ IsCont(bytes, 2) /\ IsCont(bytes, 3)
                     /\ IsCont(bytes, 4)
             THEN LET cp == (b - 240) * 262144 + (bytes[2] - 128) * 4096
                                + (bytes[3] - 128) * 64 + (bytes[4] - 128)
                  IN  <<55296 + ((cp - 65536) \div 1024), 56320 + ((cp - 65536) % 1024)>>
                          \o Utf8Decode(SubSeq(bytes, 5, Len(bytes)))
             ELSE <<65533>> \o Utf8Decode(Tail(bytes))

HexLower == <<"0", "1", "2", "3", "4", "5", "6", "7", "8", "9", "a", "b", "c", "d", "e", "f">>
HexUpper == <<"0", "1", "2", "3", "4", "5", "6", "7", "8", "9", "A", "B", "C", "D", "E", "F">>

\* hex digits without the leading zero of a byte below 16
RECURSIVE ToHexUnpadded(_)
ToHexUnpadded(bytes) ==
    IF bytes = <<>> THEN <<>>
    ELSE (IF Head(bytes) < 16 THEN <<HexLower[Head(bytes) + 1]>>
          ELSE <<HexLower[(Head(bytes) \div 16) + 1], HexLower[(Head(bytes) % 16) + 1]>>)
             \o ToHexUnpadded(Tail(bytes))

\* buffer.toString("hex") and the "hex" output encoding: two lower-case
\* digits per byte
RECURSIVE ToHex(_)
ToHex(bytes) ==
    IF bytes = <<>> THEN <<>>
    ELSE <<HexLower[(Head(bytes) \div 16) + 1], HexLower[(Head(bytes) % 16) + 1]>>
             \o ToHex(Tail(bytes))

HexValue(ch) ==
    IF \E k \in 1..16 : HexLower[k] = ch \/ HexUpper[k] = ch
    THEN (CHOOSE k \in 1..16 : HexLower[k] = ch \/ HexUpper[k] = ch) - 1
    ELSE -1

\* Buffer.from(text, "hex") and the "hex" input encoding: digits of either
\* case, pair by pair, up to the first pair that is not hex; a last odd
\* digit is dropped
RECURSIVE FromHex(_)
FromHex(text) ==
    IF Len(text) < 2 \/ HexValue(text[1]) < 0 \/ HexValue(text[2]) < 0 THEN <<>>
    ELSE <<16 * HexValue(text[1]) + HexValue(text[2])>>
             \o FromHex(SubSeq(text, 3, Len(text)))

\* text.split(":")
RECURSIVE Split(_, _)
Split(text, cur) ==
    IF text = <<>> THEN <<cur>>
    ELSE IF Head(text) = ":" THEN <<cur>> \o Split(Tail(text), <<>>)
    ELSE Split(Tail(text), Append(cur, Head(text)))

\* aes-256-gcm, idealised: a keystream from key and IV added byte by byte,
\* and a 16-byte tag that differs whenever IV or ciphertext differ
KeyStream(iv, i) == (KEY + 3 * iv[((i - 1) % IV_LENGTH) + 1] + 5 * i) % 256
CipherBytes(iv, bytes) == [i \in 1..Len(bytes) |-> (bytes[i] + KeyStream(iv, i)) % 256]
PlainBytes(iv, bytes) == [i \in 1..Len(bytes) |-> (bytes[i] + 256 - KeyStream(iv, i)) % 256]
AuthTag(iv, ct) ==
    [k \in 1..AUTH_TAG_LENGTH |->
        (iv[k] + KEY * k + (IF k <= Len(ct) THEN ct[k] ELSE 0)
            + (IF k = AUTH_TAG_LENGTH THEN Len(ct) ELSE 0)) % 256]

\* a decipher that never checks the tag
VerifyTagSkipped(iv, authTag, ct) == TRUE

\* decipher.final(): the tag set by setAuthTag is the tag of what was read
VerifyTag(iv, authTag, ct) == authTag = AuthTag(iv, ct)

encrypt(plaintext, iv) ==
    LET encrypted == CipherBytes(iv, Utf8Encode(plaintext))
        authTag == AuthTag(iv, encrypted)
    IN  ToHex(iv) \o <<":">> \o ToHex(authTag) \o <<":">> \o ToHex(encrypted)

decrypt(encryptedText) ==
    IF encryptedText = <<>> THEN Rejected("Invalid encrypted text")
    ELSE LET parts == Split(encryptedText, <<>>)
         IN  IF Len(parts) # 3 THEN Rejected("Invalid encrypted text format")
             ELSE IF parts[1] = <<>> \/ parts[2] = <<>>
             THEN Rejected("Invalid encrypted text format")
             ELSE LET iv == FromHex(parts[1])
                      authTag == FromHex(parts[2])
                      ct == FromHex(parts[3])
                  IN  IF Len(iv) # IV_LENGTH THEN Rejected("Invalid IV length")
                      ELSE IF Len(authTag) # AUTH_TAG_LENGTH
                      THEN Rejected("Invalid auth tag length")
                      ELSE IF ~VerifyTag(iv, authTag, ct)
                      THEN Rejected("Unsupported state or unable to authenticate data")
                      ELSE Resolved(Utf8Decode(PlainBytes(iv, ct)))

\* A PostgresConfig, reduced to its password, and its JSON text {"<password>"}
Configs == { [password |-> <<97>>], [password |-> <<233, 8364>>] }
JsonStringify(config) == <<123, 34>> \o config.password \o <<34, 125>>
JsonParse(text) ==
    IF /\ Len(text) >= 4
       /\ SubSeq(text, 1, 2) = <<123, 34>>
       /\ SubSeq(text, Len(text) - 1, Len(text)) = <<34, 125>>
    THEN Resolved([password |-> SubSeq(text, 3, Len(text) - 2)])
    ELSE Rejected("SyntaxError")

\* What can reach decrypt in place of an output of encrypt: the text cut,
\* extended or altered in one of its parts, or rewritten without changing
\* the bytes it encodes
FlipHex(hex) ==
    IF hex = <<>> THEN <<>>
    ELSE <<IF Head(hex) = "0" THEN "1" ELSE "0">> \o Tail(hex)
UpperCase(text) ==
    [i \in 1..Len(text) |->
        IF HexValue(text[i]) >= 0 THEN HexUpper[HexValue(text[i]) + 1] ELSE text[i]]
JoinParts(ivHex, authTagHex, ciphertext) ==
    ivHex \o <<":">> \o authTagHex \o <<":">> \o ciphertext
Tampered(text) ==
    LET parts == Split(text, <<>>)
        ivHex == parts[1]
        tagHex == parts[2]
        ct == parts[3]
    IN  { <<>>,
          ivHex \o <<":">> \o tagHex,
          text \o <<":", "0", "0">>,
          JoinParts(<<>>, tagHex, ct),
          JoinParts(ivHex, <<>>, ct),
          JoinParts(SubSeq(ivHex, 1, Len(ivHex) - 2), tagHex, ct),
          JoinParts(ivHex \o <<"0", "0">>, tagHex, ct),
          JoinParts(ivHex, SubSeq(tagHex, 1, Len(tagHex) - 2), ct),
          JoinParts(ivHex, tagHex \o <<"0", "0">>, ct),
          JoinParts(FlipHex(ivHex), tagHex, ct),
          JoinParts(ivHex, FlipHex(tagHex), ct),
          JoinParts(ivHex, tagHex, FlipHex(ct)),
          JoinParts(ivHex, tagHex, ct \o <<"0", "0">>),
          JoinParts(ivHex, tagHex, SubSeq(ct, 1, Len(ct) - 2)),
          UpperCase(text),
          JoinParts(ivHex \o <<"z", "z">>, tagHex, ct),
          JoinParts(ivHex, tagHex, ct \o <<"a">>) } \ {text}
Inputs(text) == {text} \cup Tampered(text)

Sealed(origin, plaintext, iv) ==
    [origin |-> origin, plain |-> plaintext, text |-> encrypt(plaintext, iv),
     by |-> "none", input |-> <<>>, result |-> Unset, status |-> "PENDING",
     tested |-> FALSE]

\* encrypt(plaintext)
Encrypt ==
    /\ vault = NoVault
    /\ \E plaintext \in Plaintexts, iv \in IVs :
           vault' = Sealed("encrypt", plaintext, iv)
    /\ UNCHANGED <<varsCompile, varsExec, varsRepeat, varsRoles, varsOrg, varsStore, varsProxy>>

\* dataSource.create: the config is stored encrypted
Create ==
    /\ vault = NoVault
    /\ \E config \in Configs, iv \in IVs :
           vault' = Sealed("create", JsonStringify(config), iv)
    /\ UNCHANGED <<varsCompile, varsExec, varsRepeat, varsRoles, varsOrg, varsStore, varsProxy>>

\* decrypt(encryptedText)
Decrypt ==
    /\ vault.origin = "encrypt" /\ vault.by = "none"
    /\ \E encryptedText \in Inputs(vault.text) :
           vault' = [vault EXCEPT !.by = "decrypt", !.input = encryptedText,
                                  !.result = Some(decrypt(encryptedText))]
    /\ UNCHANGED <<varsCompile, varsExec, varsRepeat, varsRoles, varsOrg, varsStore, varsProxy>>

\* dataSource.getConfig on the row as the database holds it now
GetConfig ==
    /\ vault.origin = "create" /\ vault.by = "none"
    /\ \E found \in BOOLEAN, sameOrg \in BOOLEAN, configEncrypted \in Inputs(vault.text) :
           LET decrypted == decrypt(configEncrypted)
               config == JsonParse(decrypted.value)
               result ==
                   IF ~found THEN Rejected("NOT_FOUND")
                   ELSE IF ~sameOrg THEN Rejected("FORBIDDEN")
                   ELSE IF decrypted.status = "rejected" THEN decrypted
                   ELSE IF config.status = "rejected" THEN config
                   ELSE Resolved([type |-> "POSTGRESQL", config |-> config.value])
           IN  vault' = [vault EXCEPT !.by = "getConfig", !.input = configEncrypted,
                                      !.result = Some(result)]
    /\ UNCHANGED <<varsCompile, varsExec, varsRepeat, varsRoles, varsOrg, varsStore, varsProxy>>

\* dataSource.testConnection on the row as the database holds it now
TestConnection ==
    /\ vault.origin = "create" /\ vault.by = "none"
    /\ \E found \in BOOLEAN, sameOrg \in BOOLEAN, configEncrypted \in Inputs(vault.text),
          success \in BOOLEAN :
           LET decrypted == decrypt(configEncrypted)
               config == JsonParse(decrypted.value)
               thrown ==
                   IF ~found THEN Rejected("NOT_FOUND")
                   ELSE IF ~sameOrg THEN Rejected("FORBIDDEN")
                   ELSE IF decrypted.status = "rejected" THEN decrypted
                   ELSE IF config.status = "rejected" THEN config
                   ELSE Resolved(Unset)
           IN  IF thrown.status = "rejected"
               THEN vault' = [vault EXCEPT !.by = "testConnection",
                                           !.input = configEncrypted,
                                           !.result = Some(thrown)]
               ELSE vault' = [vault EXCEPT !.by = "testConnection",
                                           !.input = configEncrypted,
                                           !.tested = TRUE,
                                           !.status = IF success THEN "CONNECTED" ELSE "FAILED",
                                           !.result = Some(Resolved([success |-> success]))]
    /\ UNCHANGED <<varsCompile, varsExec, varsRepeat, varsRoles, varsOrg, varsStore, varsProxy>>

InitVault ==
    /\ op = NoOp
    /\ out = NoOut
    /\ calls = <<>>
    /\ pools = <<>>
    /\ seen = <<>>
    /\ db = NoDb
    /\ resp = NoResp
    /\ http = NoHttp
    /\ vault = NoVault
    /\ roles = NoRoles
    /\ org = NoMembers
    /\ reqs = <<>>

NextVault == Encrypt \/ Create \/ Decrypt \/ GetConfig \/ TestConnection

SpecVault == InitVault /\ [][NextVault]_vars

\* no surrogate half without its partner
RECURSIVE WellFormed(_)
WellFormed(str) ==
    IF str = <<>> THEN TRUE
    ELSE IF IsHigh(Head(str))
    THEN Len(str) > 1 /\ IsLow(str[2]) /\ WellFormed(Tail(Tail(str)))
    ELSE ~IsLow(Head(str)) /\ WellFormed(Tail(str))

\* the string with U+FFFD in place of each surrogate half without partner
RECURSIVE Scrub(_)
Scrub(str) ==
    IF str = <<>> THEN <<>>
    ELSE IF IsHigh(Head(str)) /\ Len(str) > 1 /\ IsLow(str[2])
    THEN <<str[1], str[2]>> \o Scrub(Tail(Tail(str)))
    ELSE IF IsHigh(Head(str)) \/ IsLow(Head(str)) THEN <<65533>> \o Scrub(Tail(str))
    ELSE <<Head(str)>> \o Scrub(Tail(str))

IsHexText(text) == \A i \in 1..Len(text) : HexValue(text[i]) >= 0

\* three colon-separated hex parts, IV and tag of 32 digits each
ThreeHexParts(text) ==
    LET parts == Split(text, <<>>)
    IN  /\ Len(parts) = 3
        /\ \A k \in 1..3 : IsHexText(parts[k])
        /\ Len(parts[1]) = 2 * IV_LENGTH
        /\ Len(parts[2]) = 2 * AUTH_TAG_LENGTH

Encrypted == vault.origin # "none"
DecryptedBack == Encrypted /\ vault.by = "decrypt" /\ vault.input = vault.text

\* C15 as stated: decrypt(encrypt(p)) = p for every string p, the empty one
\* included, and encrypt returns three colon-separated hex parts with 32
\* digits in each of the first two.
C15_RoundTripEveryString ==
    /\ Encrypted => ThreeHexParts(vault.text)
    /\ DecryptedBack => vault.result = Some(Resolved(vault.plain))

\* C15: decrypt(encrypt(p)) = p for every well-formed string p, the empty
\* one included; for any p it is p with U+FFFD in place of each unpaired
\* surrogate; encrypt returns three colon-separated hex parts with 32 digits
\* in each of the first two.
C15_RoundTrip ==
    /\ Encrypted => ThreeHexParts(vault.text)
    /\ DecryptedBack =>
           /\ vault.result = Some(Resolved(Scrub(vault.plain)))
           /\ WellFormed(vault.plain) => vault.result = Some(Resolved(vault.plain))

\* the pair of code units of U+1F600 came back from decrypt(encrypt(p))
C15_Witness ==
    /\ DecryptedBack
    /\ vault.plain = <<55357, 56832>>
    /\ vault.result = Some(Resolved(<<55357, 56832>>))

\* the three parts of the input decode to the bytes of the encrypt output
SameBytes(input, text) ==
    LET parts == Split(input, <<>>)
        sealed == Split(text, <<>>)
    IN  /\ Len(parts) = 3
        /\ \A k \in 1..3 : FromHex(parts[k]) = FromHex(sealed[k])

DecryptErrors ==
    { "Invalid encrypted text", "Invalid encrypted text format", "Invalid IV length",
      "Invalid auth tag length", "Unsupported state or unable to authenticate data" }

\* the error of each case the claim lists
ListedError(input) ==
    LET parts == Split(input, <<>>)
    IN  IF input = <<>> THEN "Invalid encrypted text"
        ELSE IF Len(parts) # 3 \/ parts[1] = <<>> \/ parts[2] = <<>>
        THEN "Invalid encrypted text format"
        ELSE IF Len(FromHex(parts[1])) # IV_LENGTH THEN "Invalid IV length"
        ELSE IF Len(FromHex(parts[2])) # AUTH_TAG_LENGTH THEN "Invalid auth tag length"
        ELSE "Unsupported state or unable to authenticate data"

Answered == Encrypted /\ vault.by # "none"
RowErrors == { "NOT_FOUND", "FORBIDDEN" }

---------------------------------------------------------------------------
(* Roles                                                                   *)

Roles == { "VIEWER", "EDITOR", "ADMIN", "OWNER" }
ROLE_HIERARCHY == [VIEWER |-> 0, EDITOR |-> 1, ADMIN |-> 2, OWNER |-> 3]

\* new TRPCError({ code, message })
TRPCError(code, message) ==
    [status |-> "rejected", value |-> Unset, error |-> code, message |-> message]

\* a comparison that leaves out the role itself
hasMinimumRoleStrict(userRole, requiredRole) ==
    ROLE_HIERARCHY[userRole] > ROLE_HIERARCHY[requiredRole]

hasMinimumRole(userRole, requiredRole) ==
    ROLE_HIERARCHY[userRole] >= ROLE_HIERARCHY[requiredRole]

assertRole(userRole, requiredRole) ==
    IF ~hasMinimumRole(userRole, requiredRole)
    THEN TRPCError("FORBIDDEN", requiredRole \o " access required")
    ELSE Resolved(Unset)

\* hasMinimumRole on each pair of the three roles at hand
HasMinimumRole ==
    /\ roles.has = Unset
    /\ roles' = [roles EXCEPT !.has =
                    Some([ur |-> hasMinimumRole(roles.userRole, roles.requiredRole),
                          rt |-> hasMinimumRole(roles.requiredRole, roles.thirdRole),
                          ut |-> hasMinimumRole(roles.userRole, roles.thirdRole)])]
    /\ UNCHANGED <<varsCompile, varsExec, varsRepeat, varsVault, varsOrg, varsStore, varsProxy>>

\* assertRole(userRole, requiredRole)
AssertRole ==
    /\ roles.asserted = Unset
    /\ roles' = [roles EXCEPT !.asserted =
                    Some(assertRole(roles.userRole, roles.requiredRole))]
    /\ UNCHANGED <<varsCompile, varsExec, varsRepeat, varsVault, varsOrg, varsStore, varsProxy>>

InitRoles ==
    /\ op = NoOp
    /\ out = NoOut
    /\ calls = <<>>
    /\ pools = <<>>
    /\ seen = <<>>
    /\ db = NoDb
    /\ resp = NoResp
    /\ http = NoHttp
    /\ vault = NoVault
    /\ org = NoMembers
    /\ reqs = <<>>
    /\ roles \in [userRole : Roles, requiredRole : Roles, thirdRole : Roles,
                  has : {Unset}, asserted : {Unset}]

NextRoles == HasMinimumRole \/ AssertRole

SpecRoles == InitRoles /\ [][NextRoles]_vars

\* the order VIEWER < EDITOR < ADMIN < OWNER
RoleOrder == <<"VIEWER", "EDITOR", "ADMIN", "OWNER">>
Position(role) == CHOOSE i \in 1..Len(RoleOrder) : RoleOrder[i] = role
AtOrAbove(userRole, requiredRole) == Position(userRole) >= Position(requiredRole)

\* C17: hasMinimumRole is true exactly when the user's role is at or above
\* the required one in VIEWER < EDITOR < ADMIN < OWNER: it is reflexive and
\* transitive, OWNER meets every requirement and VIEWER only VIEWER; and
\* assertRole throws FORBIDDEN exactly when hasMinimumRole is false.
C17_RoleOrder ==
    /\ roles.has # Unset =>
           LET has == roles.has[1]
           IN  /\ has.ur = AtOrAbove(roles.userRole, roles.requiredRole)
               /\ has.rt = AtOrAbove(roles.requiredRole, roles.thirdRole)
               /\ has.ut = AtOrAbove(roles.userRole, roles.thirdRole)
               /\ roles.userRole = roles.requiredRole => has.ur
               /\ (has.ur /\ has.rt) => has.ut
               /\ roles.userRole = "OWNER" => has.ur
               /\ roles.userRole = "VIEWER" => (has.ur <=> roles.requiredRole = "VIEWER")
    /\ roles.asserted # Unset =>
           IF AtOrAbove(roles.userRole, roles.requiredRole)
           THEN roles.asserted[1].status = "resolved"
           ELSE /\ roles.asserted[1].status = "rejected"
                /\ roles.asserted[1].error = "FORBIDDEN"
    /\ (roles.has # Unset /\ roles.asserted # Unset) =>
           (roles.asserted[1].status = "rejected" <=> ~roles.has[1].ur)

\* an ADMIN was checked against OWNER: hasMinimumRole said no and assertRole
\* threw FORBIDDEN
C17_Witness ==
    /\ roles.userRole = "ADMIN" /\ roles.requiredRole = "OWNER"
    /\ roles.has # Unset /\ ~roles.has[1].ur
    /\ roles.asserted # Unset /\ roles.asserted[1].error = "FORBIDDEN"

---------------------------------------------------------------------------
(* Organizations and their members                                         *)

\* Member-management requests that may be in flight together
MaxRequests == 2
RequestIds == 1..MaxRequests

UserSeq == <<"u1", "u2", "u3">>
Users == { UserSeq[i] : i \in 1..Len(UserSeq) }
NotMember == "NONE"

Kinds == { "updateMemberRole", "removeMember", "leave" }

NoOrg ==
    [exists |-> FALSE, serial |-> TRUE, members |-> [u \in Users |-> NotMember],
     created |-> Unset]
IdleRequest ==
    [kind |-> "idle", caller |-> "", target |-> "", role |-> "", pc |-> "idle",
     memberRole |-> "", targetRole |-> "", result |-> Unset]

\* organizationMember.count({ where: { role: "OWNER" } })
OwnerCount(members) == Cardinality({ u \in Users : members[u] = "OWNER" })

\* a check that lets the last owner go
IsLastOwnerNever(ownerCount) == ownerCount < 1

\* ownerCount <= 1
IsLastOwner(ownerCount) == ownerCount <= 1

\* the procedure a handler is built on: orgOwnerProcedure, orgAdminProcedure,
\* orgProcedure
RequiredRole(kind) ==
    IF kind = "updateMemberRole" THEN "OWNER"
    ELSE IF kind = "removeMember" THEN "ADMIN"
    ELSE "VIEWER"

verifyOrgMembership(members, userId) ==
    IF members[userId] = NotMember
    THEN TRPCError("FORBIDDEN", "Not a member of this organization")
    ELSE Resolved([role |-> members[userId]])

\* the guard in front of a handler: the caller's membership is read, its
\* role must reach the procedure's role, and becomes ctx.memberRole
Middleware(members, kind, caller) ==
    LET membership == verifyOrgMembership(members, caller)
    IN  IF membership.status = "rejected" THEN membership
        ELSE IF assertRole(membership.value.role, RequiredRole(kind)).status = "rejected"
        THEN assertRole(membership.value.role, RequiredRole(kind))
        ELSE Resolved(membership.value.role)

\* a request may start: alone when requests are served one after the other,
\* else one request per caller
MayStart(r, caller) ==
    /\ org.exists
    /\ IF org.serial THEN r = 1 /\ reqs[r].pc \in {"idle", "done"}
       ELSE reqs[r].pc = "idle" /\ caller = UserSeq[r]

Started(kind, caller, target, role) ==
    [IdleRequest EXCEPT !.kind = kind, !.caller = caller, !.target = target,
                        !.role = role]

Finish(r, request, result) ==
    reqs' = [reqs EXCEPT ![r] = [request EXCEPT !.pc = "done", !.result = Some(result)]]

Goto(r, request, pc) ==
    reqs' = [reqs EXCEPT ![r] = [request EXCEPT !.pc = pc]]

\* organization.create: the creator becomes OWNER
CreateOrganization ==
    /\ ~org.exists
    /\ \E creator \in Users, validSlug \in BOOLEAN, slugAvailable \in BOOLEAN :
           IF ~validSlug
           THEN org' = [org EXCEPT !.created = Some(TRPCError("BAD_REQUEST", "Invalid slug format"))]
           ELSE IF ~slugAvailable
           THEN org' = [org EXCEPT !.created = Some(TRPCError("CONFLICT", "This slug is already taken"))]
           ELSE org' = [org EXCEPT !.exists = TRUE, !.created = Some(Resolved(creator)),
                                   !.members = [@ EXCEPT ![creator] = "OWNER"]]
    /\ UNCHANGED <<reqs, varsCompile, varsExec, varsRepeat, varsVault, varsRoles, varsStore, varsProxy>>

\* a user becomes a member with some role
JoinOrganization ==
    /\ org.exists /\ org.serial
    /\ \E u \in Users, role \in Roles :
           /\ org.members[u] = NotMember
           /\ org' = [org EXCEPT !.members = [@ EXCEPT ![u] = role]]
    /\ UNCHANGED <<reqs, varsCompile, varsExec, varsRepeat, varsVault, varsRoles, varsStore, varsProxy>>

\* updateMemberRole up to its first query
StartUpdateMemberRole(r) ==
    /\ \E caller \in Users, target \in Users, role \in Roles :
           /\ MayStart(r, caller)
           /\ LET request == Started("updateMemberRole", caller, target, role)
                  guard == Middleware(org.members, "updateMemberRole", caller)
              IN  IF guard.status = "rejected" THEN Finish(r, request, guard)
                  ELSE IF target = caller
                  THEN Finish(r, [request EXCEPT !.memberRole = guard.value],
                              TRPCError("BAD_REQUEST", "Cannot change your own role"))
                  ELSE Goto(r, [request EXCEPT !.memberRole = guard.value], "find")
    /\ UNCHANGED <<org, varsCompile, varsExec, varsRepeat, varsVault, varsRoles, varsStore, varsProxy>>

\* removeMember up to its first query
StartRemoveMember(r) ==
    /\ \E caller \in Users, target \in Users :
           /\ MayStart(r, caller)
           /\ LET request == Started("removeMember", caller, target, "")
                  guard == Middleware(org.members, "removeMember", caller)
              IN  IF guard.status = "rejected" THEN Finish(r, request, guard)
                  ELSE IF target = caller
                  THEN Finish(r, [request EXCEPT !.memberRole = guard.value],
                              TRPCError("BAD_REQUEST", "Cannot remove yourself"))
                  ELSE Goto(r, [request EXCEPT !.memberRole = guard.value], "find")
    /\ UNCHANGED <<org, varsCompile, varsExec, varsRepeat, varsVault, varsRoles, varsStore, varsProxy>>

\* leave up to its first query
StartLeave(r) ==
    /\ \E caller \in Users :
           /\ MayStart(r, caller)
           /\ LET request == Started("leave", caller, caller, "")
                  guard == Middleware(org.members, "leave", caller)
              IN  IF guard.status = "rejected" THEN Finish(r, request, guard)
                  ELSE Goto(r, [request EXCEPT !.memberRole = guard.value],
                            IF guard.value = "OWNER" THEN "count" ELSE "write")
    /\ UNCHANGED <<org, varsCompile, varsExec, varsRepeat, varsVault, varsRoles, varsStore, varsProxy>>

\* organizationMember.findUnique of the target answers
FindTarget(r) ==
    /\ reqs[r].pc = "find"
    /\ LET request == [reqs[r] EXCEPT !.targetRole = org.members[reqs[r].target]]
           row == org.members[reqs[r].target]
       IN  IF row = NotMember
           THEN Finish(r, request, TRPCError("NOT_FOUND", "Member not found"))
           ELSE IF request.kind = "updateMemberRole"
           THEN Goto(r, request, IF row = "OWNER" /\ request.role # "OWNER"
                                 THEN "count" ELSE "write")
           ELSE IF row = "OWNER" /\ request.memberRole # "OWNER"
           THEN Finish(r, request,
                       TRPCError("FORBIDDEN", "Only owners can remove other owners"))
           ELSE Goto(r, request, IF row = "OWNER" THEN "count" ELSE "write")
    /\ UNCHANGED <<org, varsCompile, varsExec, varsRepeat, varsVault, varsRoles, varsStore, varsProxy>>

LastOwnerMessage(kind) ==
    IF kind = "updateMemberRole" THEN "Cannot demote the last owner"
    ELSE IF kind = "removeMember" THEN "Cannot remove the last owner"
    ELSE "Cannot leave as the last owner"

\* organizationMember.count of the owners answers
CountOwners(r) ==
    /\ reqs[r].pc = "count"
    /\ IF IsLastOwner(OwnerCount(org.members))
       THEN Finish(r, reqs[r], TRPCError("BAD_REQUEST", LastOwnerMessage(reqs[r].kind)))
       ELSE Goto(r, reqs[r], "write")
    /\ UNCHANGED <<org, varsCompile, varsExec, varsRepeat, varsVault, varsRoles, varsStore, varsProxy>>

\* organizationMember.update / organizationMember.delete: the row is changed,
\* or the write fails because the row is gone
WriteMember(r) ==
    /\ reqs[r].pc = "write"
    /\ LET request == reqs[r]
           userId == IF request.kind = "leave" THEN request.caller ELSE request.target
       IN  IF org.members[userId] = NotMember
           THEN /\ Finish(r, request, Rejected("P2025"))
                /\ UNCHANGED org
           ELSE /\ Finish(r, request, Resolved(userId))
                /\ org' = [org EXCEPT !.members =
                              [@ EXCEPT ![userId] =
                                  IF request.kind = "updateMemberRole" THEN request.role
                                  ELSE NotMember]]
    /\ UNCHANGED <<varsCompile, varsExec, varsRepeat, varsVault, varsRoles, varsStore, varsProxy>>

Requests(r) ==
    \/ StartUpdateMemberRole(r)
    \/ StartRemoveMember(r)
    \/ StartLeave(r)
    \/ FindTarget(r)
    \/ CountOwners(r)
    \/ WriteMember(r)

InitOrg ==
    /\ op = NoOp
    /\ out = NoOut
    /\ calls = <<>>
    /\ pools = <<>>
    /\ seen = <<>>
    /\ db = NoDb
    /\ resp = NoResp
    /\ http = NoHttp
    /\ vault = NoVault
    /\ roles = NoRoles
    /\ org = NoOrg
    /\ reqs = [r \in RequestIds |-> IdleRequest]

NextOrg ==
    \/ CreateOrganization
    \/ JoinOrganization
    \/ \E r \in RequestIds : Requests(r)

\* requests served one after the other, from organization.create on
SpecOrg == InitOrg /\ [][NextOrg]_vars

\* an organization with two owners; its requests overlap
InitRace ==
    /\ op = NoOp
    /\ out = NoOut
    /\ calls = <<>>
    /\ pools = <<>>
    /\ seen = <<>>
    /\ db = NoDb
    /\ resp = NoResp
    /\ http = NoHttp
    /\ vault = NoVault
    /\ roles = NoRoles
    /\ \E third \in {NotMember, "ADMIN"} :
           org = [exists |-> TRUE, serial |-> FALSE, created |-> Some(Resolved("u1")),
                  members |-> [u \in Users |-> IF u \in {"u1", "u2"} THEN "OWNER" ELSE third]]
    /\ reqs = [r \in RequestIds |-> IdleRequest]

NextRace == \E r \in RequestIds : Requests(r)

SpecRace == InitRace /\ [][NextRace]_vars

\* the member a finished request was about to demote or remove
Victim(r) == IF reqs[r].kind = "leave" THEN reqs[r].caller ELSE reqs[r].target
Finished(r) == reqs[r].pc = "done" /\ reqs[r].result # Unset

\* request r was about the one remaining owner: a demotion, a removal, a leave
AboutLastOwner(r) ==
    /\ Finished(r)
    /\ org.members[Victim(r)] = "OWNER"
    /\ OwnerCount(org.members) = 1
    /\ reqs[r].kind = "updateMemberRole" => reqs[r].role # "OWNER"

OwnerKept == org.exists => OwnerCount(org.members) >= 1

\* the caller of request r passed the guard of its procedure
Admitted(r) == reqs[r].memberRole # ""

\* C18 as stated: with requests served one after the other from
\* organization.create on, an organization always has an OWNER, and a request
\* to demote, remove or let leave the last owner is rejected with BAD_REQUEST.
C18_AsStated ==
    /\ OwnerKept
    /\ \A r \in RequestIds :
           (org.serial /\ AboutLastOwner(r) /\ Admitted(r)) =>
               reqs[r].result[1].error = "BAD_REQUEST"

\* a step in which request r ends with an error
Refused(r) ==
    /\ reqs'[r] # reqs[r]
    /\ reqs'[r].pc = "done"
    /\ reqs'[r].result[1].status = "rejected"

\* C18: with requests served one after the other from organization.create
\* on, an organization always has an OWNER; a request to demote, remove or
\* let leave the last owner is rejected: with BAD_REQUEST when the caller is
\* that owner, and with FORBIDDEN when it is anyone else, which past the
\* guard can only be an ADMIN asking removeMember; and no rejected request
\* changes a membership.
C18_LastOwnerKept ==
    /\ [](OwnerKept
          /\ \A r \in RequestIds :
                 (org.serial /\ AboutLastOwner(r)) =>
                     /\ reqs[r].result[1].status = "rejected"
                     /\ reqs[r].result[1].error =
                            IF reqs[r].caller = Victim(r) THEN "BAD_REQUEST"
                            ELSE "FORBIDDEN"
                     /\ (Admitted(r) /\ reqs[r].caller # Victim(r)) =>
                            /\ reqs[r].kind = "removeMember"
                            /\ reqs[r].memberRole = "ADMIN"
                            /\ reqs[r].result[1].message =
                                   "Only owners can remove other owners")
    /\ [][\A r \in RequestIds : Refused(r) => org'.members = org.members]_vars

\* the only owner of an organization with other members asked to leave and
\* was refused
C18_Witness ==
    /\ org.exists /\ org.serial
    /\ AboutLastOwner(1)
    /\ reqs[1].kind = "leave"
    /\ reqs[1].result = Some(TRPCError("BAD_REQUEST", "Cannot leave as the last owner"))
    /\ \E u \in Users : org.members[u] \notin {NotMember, "OWNER"}

\* C20: when the two owners of a two-owner organization run leave,
\* removeMember or a demoting updateMemberRole at the same time, whatever the
\* order of their reads and writes, an OWNER is left once both have finished.
C20_OwnerSurvivesRace ==
    (~org.serial /\ \A r \in RequestIds : Finished(r)) => OwnerCount(org.members) >= 1

---------------------------------------------------------------------------
(* The routers over the stored records: data sources, resources, apps,     *)
(* pages and audit log entries, each owned by one organization             *)

\* ctx.organization.id of a request: the organization the middleware found
\* the caller to be a member of
Orgs == { "o1", "o2" }
Tables == { "dataSource", "resource", "app", "page", "auditLog" }

\* Rows a table may hold, and requests served in one run
MaxRows == 4
MaxServed == 2

\* names of data sources and resources; names of apps and pages, as characters
EntityNames == { "n1", "n2" }
AppNames == { <<"a">>, <<"A", " ">> }
NamesOf(t) == IF t \in {"app", "page"} THEN AppNames ELSE EntityNames
\* connection configurations, and resource configurations: a table, a
\* read-only query, a query that drops a table
DataSourceConfigs == { "c1", "c2" }
TableConfigs == { "t1" }
QueryConfigs == { "q1", "q-drop" }

\* name.toLowerCase().replace(/[^a-z0-9]+/g, "-").replace(/^-|-$/g, "")
toLowerCase(ch) == IF ch = "A" THEN "a" ELSE IF ch = "B" THEN "b" ELSE ch
IsSlugChar(ch) == ch \in { "a", "b", "0", "1" }
RECURSIVE Dashed(_, _)
Dashed(s, inRun) ==
    IF s = <<>> THEN <<>>
    ELSE IF IsSlugChar(Head(s)) THEN <<Head(s)>> \o Dashed(Tail(s), FALSE)
    ELSE (IF inRun THEN <<>> ELSE <<"-">>) \o Dashed(Tail(s), TRUE)
TrimDash(s) ==
    LET front == IF s # <<>> /\ Head(s) = "-" THEN Tail(s) ELSE s
    IN  IF front # <<>> /\ front[Len(front)] = "-"
        THEN SubSeq(front, 1, Len(front) - 1) ELSE front
generateSlug(name) ==
    TrimDash(Dashed([i \in 1..Len(name) |-> toLowerCase(name[i])], FALSE))

\* validateSqlSafety: the statement holds none of the disallowed operations
validateSqlSafety(config) == config # "q-drop"

\* encrypt(JSON.stringify(config)) and JSON.parse(decrypt(configEncrypted)),
\* the cipher being the one of the credential section
Seal(config) == [sealed |-> config]
Unseal(configEncrypted) == configEncrypted.sealed

\* the records the routers start from: one of each kind per organization
SeedDb ==
    [seeded |-> TRUE, nextId |-> 11,
     dataSource |->
         { [id |-> 1, name |-> "n1", type |-> "POSTGRESQL", status |-> "PENDING",
            lastTestedAt |-> Unset, configEncrypted |-> Seal("c1"), organizationId |-> "o1"],
           [id |-> 2, name |-> "n1", type |-> "POSTGRESQL", status |-> "PENDING",
            lastTestedAt |-> Unset, configEncrypted |-> Seal("c1"), organizationId |-> "o2"] },
     resource |->
         { [id |-> 3, name |-> "n1", type |-> "TABLE", config |-> "t1",
            organizationId |-> "o1", dataSourceId |-> 1],
           [id |-> 4, name |-> "n1", type |-> "QUERY", config |-> "q1",
            organizationId |-> "o2", dataSourceId |-> 2] },
     app |->
         { [id |-> 5, name |-> <<"a">>, slug |-> <<"a">>, organizationId |-> "o1"],
           [id |-> 6, name |-> <<"a">>, slug |-> <<"a">>, organizationId |-> "o2"] },
     page |->
         { [id |-> 7, name |-> <<"a">>, slug |-> <<"a">>, appId |-> 5],
           [id |-> 8, name |-> <<"a">>, slug |-> <<"a">>, appId |-> 6] },
     auditLog |->
         { [id |-> 9, action |-> "create", organizationId |-> "o1"],
           [id |-> 10, action |-> "create", organizationId |-> "o2"] }]

\* no records yet
EmptyDb ==
    [seeded |-> TRUE, nextId |-> 1, dataSource |-> {}, resource |-> {}, app |-> {},
     page |-> {}, auditLog |-> {}]

\* input.id: the id of a stored record, or of none (0)
InputIds(t) == { row.id : row \in db[t] } \cup { 0 }

\* findUnique({ where: { id } })
Exists(t, id) == \E row \in db[t] : row.id = id
Row(t, id) == CHOOSE row \in db[t] : row.id = id

\* organizationId of a record; page.app.organizationId of a page
OrganizationOf(store, t, row) ==
    IF t = "page"
    THEN (CHOOSE a \in store.app : a.id = row.appId).organizationId
    ELSE row.organizationId

Label(t) ==
    CASE t = "dataSource" -> "Data source"
      [] t = "resource" -> "Resource"
      [] t = "app" -> "App"
      [] t = "page" -> "Page"
      [] OTHER -> "Audit log"

\* a handler that looks the record up and never compares organizations
RefusalWhenMissing(t, o, id) ==
    IF ~Exists(t, id)
    THEN Some(TRPCError("NOT_FOUND", Label(t) \o " not found"))
    ELSE Unset

\* the opening of every handler that takes an id: findUnique, NOT_FOUND when
\* there is no such record, FORBIDDEN when it is another organization's
Refusal(t, o, id) ==
    IF ~Exists(t, id)
    THEN Some(TRPCError("NOT_FOUND", Label(t) \o " not found"))
    ELSE IF OrganizationOf(db, t, Row(t, id)) # o
    THEN Some(TRPCError("FORBIDDEN", Label(t) \o " not found"))
    ELSE Unset

\* select: { ... }: the fields of a record a handler returns
Select(row, fields) == [f \in fields |-> row[f]]
GetByIdFields(t) ==
    CASE t = "dataSource" -> {"id", "name", "type", "status", "lastTestedAt", "organizationId"}
      [] t = "resource" -> {"id", "name", "type", "config", "organizationId", "dataSourceId"}
      [] t = "app" -> {"id", "name", "slug", "organizationId"}
      [] t = "page" -> {"id", "name", "slug", "appId"}
      [] OTHER -> {"id", "action", "organizationId"}
ListFields(t) ==
    CASE t = "dataSource" -> {"id", "name", "type", "status", "lastTestedAt"}
      [] t = "resource" -> {"id", "name", "type"}
      [] t = "app" -> {"id", "name", "slug"}
      [] OTHER -> {"id", "action", "organizationId"}

\* a duplicate check that finds nothing
DuplicateNever(t, o, name, scope, except) == FALSE

\* findFirst for a duplicate: the name within the organization for data
\* sources and resources, the slug within the organization for apps, the
\* slug within the app for pages
Duplicate(t, o, name, scope, except) ==
    \E other \in db[t] :
        /\ other.id # except
        /\ CASE t = "app" -> other.organizationId = o /\ other.slug = generateSlug(name)
             [] t = "page" -> other.appId = scope /\ other.slug = generateSlug(name)
             [] OTHER -> other.organizationId = o /\ other.name = name

ConflictMessage(t) ==
    CASE t = "dataSource" -> "A data source with this name already exists"
      [] t = "resource" -> "A resource with this name already exists"
      [] t = "app" -> "An app with this name already exists"
      [] OTHER -> "A page with this name already exists in this app"

\* the owner of the record an id names, for the record of the request
OwnerOf(t, id) == IF Exists(t, id) THEN Some(OrganizationOf(db, t, Row(t, id))) ELSE Unset

\* a handler has run to its end: the response goes out, the writes are in;
\* the record of the request keeps the id and the name it carried
Respond(handler, t, o, id, name, result, store) ==
    /\ resp' = [handler |-> handler, n |-> resp.n + 1, table |-> t, organization |-> o,
                id |-> id, name |-> name, owner |-> OwnerOf(t, id), result |-> result]
    /\ db' = store
    /\ UNCHANGED <<http, varsCompile, varsExec, varsRepeat, varsVault, varsRoles, varsOrg>>

Replace(store, t, id, row) ==
    [store EXCEPT ![t] = { r \in @ : r.id # id } \cup { row }]
Insert(store, t, row) ==
    [store EXCEPT ![t] = @ \cup { [row EXCEPT !.id = store.nextId] }, !.nextId = @ + 1]

\* dataSource.getById, resource.getById, app.getById, app.getPage, and
\* audit.getById, which answers the entry or null (Unset) where the others
\* throw
getById(t, o, id) ==
    /\ db.seeded
    /\ LET refusal == Refusal(t, o, id)
       IN  IF t = "auditLog"
           THEN Respond("getById", t, o, id, Unset,
                        IF refusal # Unset THEN Resolved(Unset)
                        ELSE Resolved(Some(Select(Row(t, id), GetByIdFields(t)))), db)
           ELSE Respond("getById", t, o, id, Unset,
                        IF refusal # Unset THEN refusal[1]
                        ELSE Resolved(Select(Row(t, id), GetByIdFields(t))), db)

\* dataSource.getConfig
getConfig(o, id) ==
    /\ db.seeded
    /\ LET refusal == Refusal("dataSource", o, id)
       IN  Respond("getConfig", "dataSource", o, id, Unset,
                   IF refusal # Unset THEN refusal[1]
                   ELSE Resolved([id |-> id, type |-> Row("dataSource", id).type,
                                  config |-> Unseal(Row("dataSource", id).configEncrypted)]),
                   db)

\* dataSource.list, resource.list, app.list, audit.list
list(t, o) ==
    /\ db.seeded
    /\ Respond("list", t, o, 0, Unset,
               Resolved({ Select(row, ListFields(t)) :
                              row \in { r \in db[t] : r.organizationId = o } }),
               db)

\* dataSource.update, resource.update, app.update, app.updatePage
update(t, o, id, name, config) ==
    /\ db.seeded
    /\ LET refusal == Refusal(t, o, id)
           row == Row(t, id)
           named == IF name = Unset THEN row
                    ELSE IF t \in {"app", "page"}
                    THEN IF name[1] # row.name
                         THEN [row EXCEPT !.name = name[1], !.slug = generateSlug(name[1])]
                         ELSE row
                    ELSE [row EXCEPT !.name = name[1]]
           written == IF config = Unset THEN named
                      ELSE IF t = "dataSource"
                      THEN [named EXCEPT !.configEncrypted = Seal(config[1]),
                                         !.status = "PENDING"]
                      ELSE [named EXCEPT !.config = config[1]]
       IN  IF refusal # Unset
           THEN Respond("update", t, o, id, name, refusal[1], db)
           ELSE IF /\ t = "resource" /\ config # Unset /\ row.type = "QUERY"
                   /\ config[1] \in QueryConfigs /\ ~validateSqlSafety(config[1])
           THEN Respond("update", t, o, id, name,
                        TRPCError("BAD_REQUEST", "SQL contains disallowed operations"), db)
           ELSE IF /\ name # Unset /\ name[1] # row.name
                   /\ Duplicate(t, o, name[1], IF t = "page" THEN row.appId ELSE 0, id)
           THEN Respond("update", t, o, id, name,
                        TRPCError("CONFLICT", ConflictMessage(t)), db)
           ELSE Respond("update", t, o, id, name,
                        Resolved(Select(written, {"id", "name"})), Replace(db, t, id, written))

\* the records that refer to a record: the resources of a data source, the
\* pages of an app
Referring(t, id) ==
    CASE t = "dataSource" -> [table |-> "resource",
                              rows |-> { r \in db.resource : r.dataSourceId = id }]
      [] t = "app" -> [table |-> "page", rows |-> { r \in db.page : r.appId = id }]
      [] OTHER -> [table |-> "page", rows |-> {}]

\* dataSource.delete, resource.delete, app.delete, app.deletePage; what the
\* database does with referring records is the schema's choice: they go
\* with the record, or the delete fails
delete(t, o, id) ==
    /\ db.seeded
    /\ LET refusal == Refusal(t, o, id)
           refs == Referring(t, id)
       IN  IF refusal # Unset
           THEN Respond("delete", t, o, id, Unset, refusal[1], db)
           ELSE \E cascade \in BOOLEAN :
                    IF refs.rows # {} /\ ~cascade
                    THEN Respond("delete", t, o, id, Unset,
                                 Rejected("Foreign key constraint failed"), db)
                    ELSE Respond("delete", t, o, id, Unset, Resolved([success |-> TRUE]),
                                 [db EXCEPT ![t] = { r \in @ : r.id # id },
                                            ![refs.table] = @ \ refs.rows])

\* dataSource.testConnection, served without another request in between
testConnection(o, id) ==
    /\ db.seeded
    /\ LET refusal == Refusal("dataSource", o, id)
           row == Row("dataSource", id)
       IN  IF refusal # Unset
           THEN Respond("testConnection", "dataSource", o, id, Unset, refusal[1], db)
           ELSE \E success \in BOOLEAN :
                    Respond("testConnection", "dataSource", o, id, Unset,
                            Resolved([success |-> success]),
                            Replace(db, "dataSource", id,
                                    [row EXCEPT !.status = IF success THEN "CONNECTED"
                                                           ELSE "FAILED",
                                                !.lastTestedAt = Some("now")]))

\* app.createPage
createPage(o, appId, name) ==
    /\ db.seeded /\ Cardinality(db.page) < MaxRows
    /\ LET refusal == Refusal("app", o, appId)
       IN  IF refusal # Unset
           THEN Respond("createPage", "app", o, appId, Some(name), refusal[1], db)
           ELSE IF Duplicate("page", o, name, appId, 0)
           THEN Respond("createPage", "app", o, appId, Some(name),
                        TRPCError("CONFLICT", ConflictMessage("page")), db)
           ELSE Respond("createPage", "app", o, appId, Some(name), Resolved([name |-> name]),
                        Insert(db, "page", [id |-> 0, name |-> name,
                                            slug |-> generateSlug(name), appId |-> appId]))

\* dataSource.create
create(o, name, config) ==
    /\ db.seeded /\ Cardinality(db.dataSource) < MaxRows
    /\ IF Duplicate("dataSource", o, name, 0, 0)
       THEN Respond("create", "dataSource", o, 0, Some(name),
                    TRPCError("CONFLICT", ConflictMessage("dataSource")), db)
       ELSE Respond("create", "dataSource", o, 0, Some(name),
                    Resolved([name |-> name, status |-> "PENDING"]),
                    Insert(db, "dataSource",
                           [id |-> 0, name |-> name, type |-> "POSTGRESQL",
                            status |-> "PENDING", lastTestedAt |-> Unset,
                            configEncrypted |-> Seal(config), organizationId |-> o]))

\* resource.createTable and resource.createQuery
createResource(type, o, name, dataSourceId, config) ==
    /\ db.seeded /\ Cardinality(db.resource) < MaxRows
    /\ LET refusal == Refusal("dataSource", o, dataSourceId)
           handler == IF type = "TABLE" THEN "createTable" ELSE "createQuery"
       IN  IF type = "QUERY" /\ ~validateSqlSafety(config)
           THEN Respond(handler, "dataSource", o, dataSourceId, Some(name),
                        TRPCError("BAD_REQUEST", "SQL contains disallowed operations"), db)
           ELSE IF refusal # Unset
           THEN Respond(handler, "dataSource", o, dataSourceId, Some(name), refusal[1], db)
           ELSE IF Duplicate("resource", o, name, 0, 0)
           THEN Respond(handler, "dataSource", o, dataSourceId, Some(name),
                        TRPCError("CONFLICT", ConflictMessage("resource")), db)
           ELSE Respond(handler, "dataSource", o, dataSourceId, Some(name),
                        Resolved([name |-> name, type |-> type]),
                        Insert(db, "resource",
                               [id |-> 0, name |-> name, type |-> type, config |-> config,
                                organizationId |-> o, dataSourceId |-> dataSourceId]))
createTable(o, name, dataSourceId, config) ==
    createResource("TABLE", o, name, dataSourceId, config)
createQuery(o, name, dataSourceId, config) ==
    createResource("QUERY", o, name, dataSourceId, config)

\* the tables a handler exists for
Keyed == Tables \ { "auditLog" }
Listed == Tables \ { "page" }
Optional(S) == { Unset } \cup { Some(x) : x \in S }
ConfigsOf(t) ==
    CASE t = "dataSource" -> DataSourceConfigs
      [] t = "resource" -> TableConfigs \cup QueryConfigs
      [] OTHER -> {}

InitTenants ==
    /\ op = NoOp
    /\ out = NoOut
    /\ calls = <<>>
    /\ pools = <<>>
    /\ seen = <<>>
    /\ db = SeedDb
    /\ resp = NoResp
    /\ http = NoHttp
    /\ vault = NoVault
    /\ roles = NoRoles
    /\ org = NoMembers
    /\ reqs = <<>>

\* requests of members of either organization, one at a time
NextTenants ==
    \E o \in { x \in Orgs : resp.n < MaxServed } :
        \/ \E t \in Tables : \E id \in InputIds(t) : getById(t, o, id)
        \/ \E id \in InputIds("dataSource") : getConfig(o, id)
        \/ \E t \in Listed : list(t, o)
        \/ \E t \in Keyed :
               \E id \in InputIds(t), name \in Optional(NamesOf(t)),
                  config \in Optional(ConfigsOf(t)) : update(t, o, id, name, config)
        \/ \E t \in Keyed : \E id \in InputIds(t) : delete(t, o, id)
        \/ \E id \in InputIds("dataSource") : testConnection(o, id)
        \/ \E appId \in InputIds("app"), name \in AppNames : createPage(o, appId, name)

SpecTenants == InitTenants /\ [][NextTenants]_vars

\* the request just served named a record of another organization
Foreign(r) == r.owner # Unset /\ r.owner[1] # r.organization
Forbidden(r) == r.result.status = "rejected" /\ r.result.error = "FORBIDDEN"
ById == { "getById", "getConfig", "update", "delete", "testConnection", "createPage" }

\* C27: a request that names a record of another organization than the
\* caller's context organization is answered FORBIDDEN (null by
\* audit.getById) and changes no stored record; what a handler returns,
\* changes, adds or removes belongs to the context organization; a list holds
\* only records of the context organization.
C27_TenantIsolation ==
    /\ [](resp.handler \in ById =>
              /\ Foreign(resp) =>
                     IF resp.table = "auditLog" THEN resp.result = Resolved(Unset)
                     ELSE Forbidden(resp)
              /\ (resp.result.status = "resolved"
                      /\ ~(resp.table = "auditLog" /\ resp.result.value = Unset))
                     => resp.owner = Some(resp.organization))
    /\ [](resp.handler = "list" =>
              \A item \in resp.result.value :
                  /\ Exists(resp.table, item.id)
                  /\ OrganizationOf(db, resp.table, Row(resp.table, item.id))
                         = resp.organization)
    /\ [][/\ Foreign(resp') => db' = db
          /\ \A t \in Tables :
                 /\ \A row \in db[t] :
                        OrganizationOf(db, t, row) # resp'.organization => row \in db'[t]
                 /\ \A row \in db'[t] \ db[t] :
                        OrganizationOf(db', t, row) = resp'.organization]_vars

\* after a first request was served, a member of o1 asked to delete a page
\* of an app of o2: FORBIDDEN, and the pages are as they were
C27_Witness ==
    /\ resp.n = 2 /\ resp.handler = "delete" /\ resp.table = "page"
    /\ resp.organization = "o1" /\ resp.owner = Some("o2")
    /\ Forbidden(resp)
    /\ db.page = SeedDb.page

---------------------------------------------------------------------------
(* Names of data sources and resources, the requests served in turn        *)

Named == { "dataSource", "resource" }

InitNames ==
    /\ op = NoOp
    /\ out = NoOut
    /\ calls = <<>>
    /\ pools = <<>>
    /\ seen = <<>>
    /\ db = SeedDb
    /\ resp = NoResp
    /\ http = NoHttp
    /\ vault = NoVault
    /\ roles = NoRoles
    /\ org = NoMembers
    /\ reqs = <<>>

\* each request runs to its end before the next one starts
NextNames ==
    \E o \in { x \in Orgs : resp.n < MaxServed } :
        \/ \E name \in EntityNames, config \in DataSourceConfigs : create(o, name, config)
        \/ \E name \in EntityNames, dataSourceId \in InputIds("dataSource"),
              config \in TableConfigs : createTable(o, name, dataSourceId, config)
        \/ \E name \in EntityNames, dataSourceId \in InputIds("dataSource"),
              config \in QueryConfigs : createQuery(o, name, dataSourceId, config)
        \/ \E t \in Named :
               \E id \in InputIds(t), name \in Optional(NamesOf(t)),
                  config \in Optional(ConfigsOf(t)) : update(t, o, id, name, config)

SpecNames == InitNames /\ [][NextNames]_vars

\* the table whose names a request is about
NameTable(r) == IF r.handler \in {"createTable", "createQuery"} THEN "resource" ELSE r.table
Naming(r) ==
    /\ r.handler \in {"create", "createTable", "createQuery", "update"}
    /\ r.name # Unset
\* another record of the caller's organization holds the name the request
\* carries
NameHeld(store, r) ==
    \E row \in store[NameTable(r)] :
        /\ row.organizationId = r.organization
        /\ row.name = r.name[1]
        /\ r.handler = "update" => row.id # r.id
Conflict(r) == r.result.status = "rejected" /\ r.result.error = "CONFLICT"

---------------------------------------------------------------------------
(* The status of a data source, its update and testConnection requests     *)
(* overlapping: every await is a point where another request may run       *)

IdleJob ==
    [kind |-> "idle", pc |-> "idle", organization |-> "", id |-> 0, name |-> Unset,
     config |-> Unset, found |-> Unset, tested |-> Unset, success |-> Unset,
     result |-> Unset]

Settle(r, result) ==
    reqs' = [reqs EXCEPT ![r].pc = "done", ![r].result = Some(result)]
Quiet == UNCHANGED <<resp, http, varsCompile, varsExec, varsRepeat, varsVault, varsRoles, org>>

\* update up to its first await: findUnique, NOT_FOUND, FORBIDDEN
UpdateFinds(r) ==
    /\ reqs[r].pc = "idle"
    /\ \E o \in Orgs, id \in InputIds("dataSource"), name \in Optional(EntityNames),
          config \in Optional(DataSourceConfigs) :
           LET refusal == Refusal("dataSource", o, id)
               job == [reqs[r] EXCEPT !.kind = "update", !.organization = o, !.id = id,
                                      !.name = name, !.config = config]
           IN  IF refusal # Unset
               THEN reqs' = [reqs EXCEPT ![r] = [job EXCEPT !.pc = "done",
                                                            !.result = Some(refusal[1])]]
               ELSE reqs' = [reqs EXCEPT
                                ![r] = [job EXCEPT !.pc = "found",
                                                   !.found = Some(Row("dataSource", id).name)]]
    /\ UNCHANGED db
    /\ Quiet

\* the name is to change: findFirst for another record with it, CONFLICT
UpdateChecksName(r) ==
    /\ reqs[r].kind = "update" /\ reqs[r].pc = "found"
    /\ reqs[r].name # Unset /\ reqs[r].name[1] # reqs[r].found[1]
    /\ IF Duplicate("dataSource", reqs[r].organization, reqs[r].name[1], 0, reqs[r].id)
       THEN Settle(r, TRPCError("CONFLICT", ConflictMessage("dataSource")))
       ELSE reqs' = [reqs EXCEPT ![r].pc = "checked"]
    /\ UNCHANGED db
    /\ Quiet

\* ctx.db.dataSource.update({ where: { id }, data: updateData }): the name
\* when one was sent; the encrypted config and status PENDING when a config
\* was sent
UpdateWrites(r) ==
    /\ reqs[r].kind = "update"
    /\ \/ reqs[r].pc = "checked"
       \/ /\ reqs[r].pc = "found"
          /\ ~(reqs[r].name # Unset /\ reqs[r].name[1] # reqs[r].found[1])
    /\ LET row == Row("dataSource", reqs[r].id)
           named == IF reqs[r].name = Unset THEN row
                    ELSE [row EXCEPT !.name = reqs[r].name[1]]
           written == IF reqs[r].config = Unset THEN named
                      ELSE [named EXCEPT !.configEncrypted = Seal(reqs[r].config[1]),
                                         !.status = "PENDING"]
       IN  /\ db' = Replace(db, "dataSource", reqs[r].id, written)
           /\ Settle(r, Resolved(Select(written, {"id", "name", "type", "status"})))
    /\ Quiet

\* testConnection up to its first await: findUnique, NOT_FOUND, FORBIDDEN,
\* then the stored config is decrypted and the connection test begins
TestFinds(r) ==
    /\ reqs[r].pc = "idle"
    /\ \E o \in Orgs, id \in InputIds("dataSource") :
           LET refusal == Refusal("dataSource", o, id)
               job == [reqs[r] EXCEPT !.kind = "testConnection", !.organization = o,
                                      !.id = id]
           IN  IF refusal # Unset
               THEN reqs' = [reqs EXCEPT ![r] = [job EXCEPT !.pc = "done",
                                                            !.result = Some(refusal[1])]]
               ELSE reqs' = [reqs EXCEPT
                                ![r] = [job EXCEPT
                                           !.pc = "testing",
                                           !.tested =
                                               Some(Unseal(Row("dataSource", id).configEncrypted))]]
    /\ UNCHANGED db
    /\ Quiet

\* await testPostgresConnection(config) resolves, success or not
TestAnswers(r) ==
    /\ reqs[r].kind = "testConnection" /\ reqs[r].pc = "testing"
    /\ \E success \in BOOLEAN :
           reqs' = [reqs EXCEPT ![r].pc = "tested", ![r].success = Some(success)]
    /\ UNCHANGED db
    /\ Quiet

\* status: result.success ? "CONNECTED" : "FAILED"
StatusOfTest(success) == IF success THEN "CONNECTED" ELSE "FAILED"

\* ctx.db.dataSource.update({ where: { id }, data: { status, lastTestedAt } })
TestWrites(r) ==
    /\ reqs[r].kind = "testConnection" /\ reqs[r].pc = "tested"
    /\ LET row == Row("dataSource", reqs[r].id)
       IN  /\ db' = Replace(db, "dataSource", reqs[r].id,
                            [row EXCEPT !.status = StatusOfTest(reqs[r].success[1]),
                                        !.lastTestedAt = Some("now")])
           /\ Settle(r, Resolved([success |-> reqs[r].success[1]]))
    /\ Quiet

InitStatus ==
    /\ op = NoOp
    /\ out = NoOut
    /\ calls = <<>>
    /\ pools = <<>>
    /\ seen = <<>>
    /\ db = EmptyDb
    /\ resp = NoResp
    /\ http = NoHttp
    /\ vault = NoVault
    /\ roles = NoRoles
    /\ org = NoMembers
    /\ reqs = [r \in RequestIds |-> IdleJob]

\* first the data source is created, then update and testConnection requests
\* on it overlap
NextStatus ==
    \/ /\ db.dataSource = {}
       /\ \E name \in EntityNames, config \in DataSourceConfigs : create("o1", name, config)
       /\ UNCHANGED reqs
    \/ \E r \in RequestIds :
           \/ UpdateFinds(r)
           \/ UpdateChecksName(r)
           \/ UpdateWrites(r)
           \/ TestFinds(r)
           \/ TestAnswers(r)
           \/ TestWrites(r)

SpecStatus == InitStatus /\ [][NextStatus]_vars

\* request r makes its write in this step
Writes(r, kind) ==
    /\ reqs[r].kind = kind /\ reqs[r].pc # "done"
    /\ reqs'[r].pc = "done" /\ reqs'[r].result[1].status = "resolved"
\* a connection test of this configuration has succeeded and been recorded
TestedOk(config) ==
    \E r \in RequestIds :
        /\ reqs[r].kind = "testConnection" /\ reqs[r].pc = "done"
        /\ reqs[r].success = Some(TRUE)
        /\ reqs[r].tested = Some(config)

\* C29: a data source is created PENDING; an update with a config stores it
\* and sets PENDING, an update without one leaves the status as it is;
\* testConnection sets CONNECTED or FAILED as the test went; and however
\* update and testConnection requests interleave, a status of CONNECTED
\* means the config now stored is one whose test succeeded.
C29_StatusFollowsTests ==
    /\ [](\A row \in db.dataSource :
              row.status = "CONNECTED" => TestedOk(Unseal(row.configEncrypted)))
    /\ [][/\ \A row \in db'.dataSource :
                 (\A old \in db.dataSource : old.id # row.id) => row.status = "PENDING"
          /\ \A r \in RequestIds :
                 /\ Writes(r, "update") =>
                        LET old == Row("dataSource", reqs[r].id)
                            new == CHOOSE row \in db'.dataSource : row.id = reqs[r].id
                        IN  IF reqs[r].config = Unset THEN new.status = old.status
                            ELSE /\ new.status = "PENDING"
                                 /\ Unseal(new.configEncrypted) = reqs[r].config[1]
                 /\ Writes(r, "testConnection") =>
                        LET new == CHOOSE row \in db'.dataSource : row.id = reqs[r].id
                        IN  new.status = IF reqs[r].success[1] THEN "CONNECTED" ELSE "FAILED"]_vars

(***************************************************************************)
(* proxy.ts: the request proxy in front of every route.  A pathname is a   *)
(* sequence of characters; a request is its pathname and the two session   *)
(* cookies it may carry (absent, or present with a value).                 *)
(***************************************************************************)
LowerCase == {"a", "b", "c", "d", "e", "f", "g", "h", "i", "j", "k", "l", "m",
              "n", "o", "p", "q", "r", "s", "t", "u", "v", "w", "x", "y", "z"}
Digit == {"0", "1", "2", "3", "4", "5", "6", "7", "8", "9"}

MinSlugLength == 3
MaxSlugLength == 50

RESERVED_SLUGS ==
    { <<"a", "d", "m", "i", "n">>, <<"a", "p", "i">>, <<"a", "p", "p">>, <<"a", "u", "t", "h">>,
      <<"d", "a", "s", "h", "b", "o", "a", "r", "d">>, <<"d", "o", "c", "s">>, <<"h", "e", "l", "p">>, <<"l", "o", "g", "i", "n">>,
      <<"l", "o", "g", "o", "u", "t">>, <<"r", "e", "g", "i", "s", "t", "e", "r">>, <<"s", "e", "t", "t", "i", "n", "g", "s">>, <<"s", "i", "g", "n", "u", "p">>,
      <<"s", "u", "p", "p", "o", "r", "t">>, <<"w", "w", "w">> }

\* /^[a-z0-9]+(?:-[a-z0-9]+)*$/ : groups of letters and digits joined by
\* single dashes, so no dash first, last or after another dash.
SlugPattern(slug) ==
    /\ Len(slug) >= 1
    /\ \A i \in 1..Len(slug) : slug[i] \in LowerCase \cup Digit \cup {"-"}
    /\ slug[1] # "-"
    /\ slug[Len(slug)] # "-"
    /\ \A i \in 1..(Len(slug) - 1) : ~(slug[i] = "-" /\ slug[i + 1] = "-")

validateSlug(slug) ==
    IF Len(slug) < MinSlugLength \/ Len(slug) > MaxSlugLength THEN FALSE
    ELSE IF ~SlugPattern(slug) THEN FALSE
    ELSE IF slug \in RESERVED_SLUGS THEN FALSE
    ELSE TRUE

PROTECTED_ROUTES == { <<"/", "n", "e", "w">>, <<"/", "a", "p", "i", "/", "t", "r", "p", "c">> }
AUTH_ROUTES == { <<"/", "l", "o", "g", "i", "n">>, <<"/", "r", "e", "g", "i", "s", "t", "e", "r">> }
PUBLIC_ROUTES == { <<"/">>, <<"/", "a", "p", "i", "/", "a", "u", "t", "h">> }

includes(text, ch) == \E i \in 1..Len(text) : text[i] = ch

\* The part of text before the first separator (all of it when there is none).
RECURSIVE UpTo(_, _)
UpTo(text, separator) ==
    IF text = <<>> \/ Head(text) = separator THEN <<>>
    ELSE <<Head(text)>> \o UpTo(Tail(text), separator)

\* pathname.split("/")[1] : what stands between the first and the second "/".
SecondPiece(pathname) ==
    LET first == UpTo(pathname, "/")
        rest == SubSeq(pathname, Len(first) + 2, Len(pathname))
    IN  UpTo(rest, "/")

\* /^\/[a-z][a-z0-9-]*$/
orgSlugPattern(text) ==
    /\ Len(text) >= 2
    /\ text[1] = "/"
    /\ text[2] \in LowerCase
    /\ \A i \in 3..Len(text) : text[i] \in LowerCase \cup Digit \cup {"-"}

isProtectedRoute(pathname) ==
    IF \E route \in PROTECTED_ROUTES : StartsWith(pathname, route) THEN TRUE
    ELSE LET firstSegment == <<"/">> \o SecondPiece(pathname)
         IN  IF /\ orgSlugPattern(firstSegment)
                /\ firstSegment \notin PUBLIC_ROUTES
                /\ firstSegment \notin AUTH_ROUTES
             THEN TRUE
             ELSE FALSE

\* URLSearchParams writes a value with "/" as %2F and reads it back; letters,
\* digits, "-" and "." are written as they are.
RECURSIVE serialize(_)
serialize(value) ==
    IF value = <<>> THEN <<>>
    ELSE (IF Head(value) = "/" THEN <<"%", "2", "F">> ELSE <<Head(value)>>)
         \o serialize(Tail(value))

RECURSIVE parse(_)
parse(text) ==
    IF text = <<>> THEN <<>>
    ELSE IF Len(text) >= 3 /\ SubSeq(text, 1, 3) = <<"%", "2", "F">>
         THEN <<"/">> \o parse(SubSeq(text, 4, Len(text)))
         ELSE <<Head(text)>> \o parse(Tail(text))

\* NextResponse.next() and NextResponse.redirect(url)
next(headers) == [kind |-> "next", headers |-> headers]
redirect(pathname, search) ==
    [kind |-> "redirect", pathname |-> pathname, search |-> search]

\* cookies.get(a)?.value ?? cookies.get(b)?.value : the second cookie is read
\* only when the first is absent; an empty value counts as no token.
sessionToken(cookies) ==
    IF cookies.plain # Unset THEN cookies.plain ELSE cookies.secure

isAuthenticated(cookies) ==
    sessionToken(cookies) # Unset /\ sessionToken(cookies)[1] # ""

proxy(request) ==
    LET pathname == request.pathname IN
    IF \/ StartsWith(pathname, <<"/", "_", "n", "e", "x", "t">>)
       \/ StartsWith(pathname, <<"/", "a", "p", "i", "/", "a", "u", "t", "h">>)
       \/ includes(pathname, ".")
    THEN next({})
    ELSE IF pathname \in AUTH_ROUTES
    THEN IF isAuthenticated(request.cookies)
         THEN redirect(<<"/">>, <<>>)
         ELSE next({"security"})
    ELSE IF isProtectedRoute(pathname) /\ ~isAuthenticated(request.cookies)
    THEN redirect(<<"/", "l", "o", "g", "i", "n">>,
                  <<[name |-> "callbackUrl", value |-> serialize(pathname)]>>)
    ELSE next({"security", "rateLimit"})

\* The requests tried: first segments that are slugs, reserved words or
\* neither, each alone and followed by more of a path, and the fixed routes.
FirstSegments ==
    { <<"a", "c", "m", "e">>, <<"a", "-", "b">>, <<"n", "e", "w", "c", "o">>, <<"1", "s", "t">>,
      <<"2", "0", "2", "4", "-", "t", "e", "a", "m">>, <<"a", "p", "i">>, <<"l", "o", "g", "i", "n">>, <<"a", "b">>,
      <<"-", "a", "b">>, <<"a", "-", "-", "b">>, <<"A", "c", "m", "e">> }
Continuations == { <<>>, <<"/">>, <<"/", "a", "p", "p", "s">>, <<"/", "l", "o", "g", "o", ".", "p", "n", "g">> }
FixedPaths ==
    { <<"/">>, <<"/", "l", "o", "g", "i", "n">>, <<"/", "r", "e", "g", "i", "s", "t", "e", "r">>, <<"/", "n", "e", "w">>,
      <<"/", "a", "p", "i", "/", "t", "r", "p", "c", "/", "a", "p", "p", ".", "l", "i", "s", "t">>, <<"/", "a", "p", "i", "/", "a", "u", "t", "h", "/", "s", "e", "s", "s", "i", "o", "n">>, <<"/", "_", "n", "e", "x", "t", "/", "d", "a", "t", "a">> }
Pathnames ==
    { <<"/">> \o s \o c : s \in FirstSegments, c \in Continuations }
        \cup FixedPaths
CookieValues == { Unset, Some(""), Some("token") }
NextRequests ==
    [pathname : Pathnames,
     cookies : [plain : CookieValues, secure : CookieValues]]

Proxy ==
    /\ http.path = "request"
    /\ http' = [path |-> "answered", request |-> http.request,
                answer |-> proxy(http.request)]
    /\ UNCHANGED <<varsCompile, varsExec, varsRepeat, varsVault, varsRoles,
                   varsOrg, varsStore>>

InitProxy ==
    /\ op = NoOp
    /\ out = NoOut
    /\ calls = <<>>
    /\ pools = <<>>
    /\ seen = <<>>
    /\ db = NoDb
    /\ resp = NoResp
    /\ vault = NoVault
    /\ roles = NoRoles
    /\ org = NoMembers
    /\ reqs = <<>>
    /\ \E request \in NextRequests : http = [path |-> "request", request |-> request]

NextProxy == Proxy

SpecProxy == InitProxy /\ [][NextProxy]_vars

NoSessionCookie(request) ==
    request.cookies.plain = Unset /\ request.cookies.secure = Unset

\* The pathname is /<slug> or /<slug>/... for a slug validateSlug accepts.
UnderOrganization(pathname) ==
    /\ Len(pathname) >= 1
    /\ pathname[1] = "/"
    /\ validateSlug(UpTo(Tail(pathname), "/"))

callbackUrl(answer) ==
    LET found == { i \in 1..Len(answer.search) :
                       answer.search[i].name = "callbackUrl" }
    IN  IF found = {} THEN Unset
        ELSE Some(parse(answer.search[CHOOSE i \in found : TRUE].value))

\* C30: a request without a session cookie whose path is /<slug> or
\* /<slug>/... for an organization slug that validateSlug accepts is answered
\* by a redirect to /login whose callbackUrl is the requested path; it is
\* never let through.
C30_OrganizationPathsNeedSession ==
    (/\ http.path = "answered"
     /\ NoSessionCookie(http.request)
     /\ UnderOrganization(http.request.pathname))
        => /\ http.answer.kind = "redirect"
           /\ http.answer.pathname = <<"/", "l", "o", "g", "i", "n">>
           /\ callbackUrl(http.answer) = Some(http.request.pathname)

=============================================================================
